---- MODULE Spec2Model ----
(***************************************************************************)
(* A model of the HappyOS SDK execution and routing kernel:                *)
(*   - AgentOrchestrator  (src/src/orchestration/AgentOrchestrator.ts)     *)
(*   - FallbackManager, CircuitBreaker and the Agent base class            *)
(*                        (src/src/core/FallbackManager.ts)                *)
(*   - A2ACommunicationBus and InMemoryMessageTransport                    *)
(*                        (src/src/communication/A2ACommunicationBus.ts)   *)
(*                                                                         *)
(* The program runs on one JavaScript event loop: code between two awaits  *)
(* is one atomic step, and every await is a point where other calls may    *)
(* run.  Each action below is one such step.                               *)
(*                                                                         *)
(* There is one Agent instance per agent id (its config carries the id);   *)
(* `status`, `retryPolicy` and `fallbackAgent` are fields of that          *)
(* instance.                                                               *)
(***************************************************************************)
EXTENDS Integers, Sequences, FiniteSets, TLC

\* ------------------------------------------------------------------ bounds

\* ExecuteAgent calls that may be in progress at once.
NumInv == 2
\* Largest configured maxConcurrentAgents.
MaxCap == 1
\* ExecuteAgent calls admitted over a run.
MaxCalls == 2
\* Clock advances over a run.
MaxTicks == 1
\* The breaker on its own: constructor arguments up to these, this many
\* concurrent gated calls, clock readings 1..MaxNow.
MaxThreshold == 2
MaxTimeout == 2
MaxHalfOpen == 2
NumGated == 2
MaxNow == 4
\* The retry loop on its own: policies with fields up to these.
MaxAttempts == 3
MaxInitialDelay == 2
MaxMultiplier == 2
MaxMaxDelay == 3
\* Context construction on its own: this many contexts built.
MaxRequests == 3
\* The Agent base class on its own: this many execute calls at once.
NumExec == 2
\* Messages routed through the orchestrator: this many sendMessage calls at
\* once and messages in total.
NumRoutes == 2
MaxRouted == 2
\* The bus and its in-memory transport on their own: this many sendMessage
\* calls in progress at once, messages and subscribe calls in total, and
\* recipients in one broadcast.
NumSends == 2
MaxMsgs == 2
MaxSubs == 2
MaxBroadcast == 2

\* ------------------------------------------------------- program constants

\* CircuitBreaker constructor defaults; FallbackManager.registerAgent always
\* constructs `new CircuitBreaker()`.
DefaultThreshold == 5
DefaultTimeout == 60000
DefaultHalfOpenAttempts == 3
\* executeWithRetry defaults.
DefaultMaxAttempts == 1
DefaultInitialDelay == 1000
DefaultBackoffMultiplier == 2
DefaultMaxDelay == 30000
\* maxFallbackAttempts as set by AgentOrchestrator.executeAgent.
MaxFallbackAttempts == 2
\* AgentOrchestrator constructor
DefaultMaxConcurrentAgents == 10

AgentIds == {"a1", "a2"}
Null == "null"
Inv == 1..NumInv

Min(x, y) == IF x <= y THEN x ELSE y

\* ------------------------------------------------------------------- state

VARIABLES
  maxConcurrentAgents,  \* OrchestratorConfig.maxConcurrentAgents
  fallbackEnabled,      \* OrchestratorConfig.fallbackEnabled
  agents,               \* AgentOrchestrator.agents (its keys)
  runningAgents,        \* AgentOrchestrator.runningAgents
  fmAgents,             \* FallbackManager.agents (its keys)
  circuitBreakers,      \* FallbackManager.circuitBreakers
  status,               \* Agent.status of each instance
  retryPolicy,          \* AgentConfig.retryPolicy of each instance
  fallbackAgent,        \* AgentConfig.fallbackAgent of each instance
  messageHandlers,      \* A2ACommunicationBus.messageHandlers
  handlers,             \* InMemoryMessageTransport.handlers
  inv,                  \* the executeAgent calls in progress
  raised,               \* what the last orchestrator call threw at its caller
  nCalls,               \* executeAgent calls admitted so far
  now,                  \* Date.now()
  ticks,                \* clock advances so far
  unit                  \* the component exercised on its own (the other specifications)

vars == <<maxConcurrentAgents, fallbackEnabled, agents, runningAgents, fmAgents,
          circuitBreakers, status, retryPolicy, fallbackAgent, messageHandlers,
          handlers, inv, raised, nCalls, now, ticks, unit>>

\* ---------------------------------------------------------- CircuitBreaker

NoBreaker == [state |-> "NONE", failureCount |-> 0, successCount |-> 0,
              lastFailureTime |-> 0, threshold |-> 0, timeout |-> 0,
              halfOpenAttempts |-> 0]

\* new CircuitBreaker(threshold, timeout, halfOpenAttempts).  lastFailureTime
\* 0 stands for the unset field: the code tests it for truthiness, and the
\* clock never reads 0.
NewCircuitBreaker(threshold, timeout, halfOpenAttempts) ==
  [state |-> "CLOSED", failureCount |-> 0, successCount |-> 0,
   lastFailureTime |-> 0, threshold |-> threshold, timeout |-> timeout,
   halfOpenAttempts |-> halfOpenAttempts]

\* shouldAttemptReset waiting for more than the timeout.
shouldAttemptResetStrict(cb, t) ==
  cb.lastFailureTime # 0 /\ t - cb.lastFailureTime > cb.timeout

shouldAttemptReset(cb, t) ==
  cb.lastFailureTime # 0 /\ t - cb.lastFailureTime >= cb.timeout

\* CircuitBreaker.execute up to the call of fn: does it throw
\* 'Circuit breaker is OPEN'?
cbRefuses(cb, t) == cb.state = "OPEN" /\ ~shouldAttemptReset(cb, t)

\* CircuitBreaker.execute up to the call of fn: the breaker when it lets
\* the call through.
\* cbEnter keeping the successCount of the last HALF_OPEN phase.
cbEnterNoReset(cb, t) ==
  IF cb.state = "OPEN" /\ shouldAttemptReset(cb, t)
  THEN [cb EXCEPT !.state = "HALF_OPEN"]
  ELSE cb

cbEnter(cb, t) ==
  IF cb.state = "OPEN" /\ shouldAttemptReset(cb, t)
  THEN [cb EXCEPT !.state = "HALF_OPEN", !.successCount = 0]
  ELSE cb

\* onSuccess closing the breaker on the first success in HALF_OPEN.
onSuccessClosesAtOnce(cb) ==
  LET c1 == [cb EXCEPT !.failureCount = 0] IN
  IF c1.state = "HALF_OPEN"
  THEN [c1 EXCEPT !.successCount = @ + 1, !.state = "CLOSED"]
  ELSE c1

\* onSuccess leaving failureCount as it is.
onSuccessKeepsFailures(cb) ==
  IF cb.state = "HALF_OPEN"
  THEN LET c2 == [cb EXCEPT !.successCount = @ + 1] IN
       IF c2.successCount >= c2.halfOpenAttempts
       THEN [c2 EXCEPT !.state = "CLOSED"]
       ELSE c2
  ELSE cb

onSuccess(cb) ==
  LET c1 == [cb EXCEPT !.failureCount = 0] IN
  IF c1.state = "HALF_OPEN"
  THEN LET c2 == [c1 EXCEPT !.successCount = @ + 1] IN
       IF c2.successCount >= c2.halfOpenAttempts
       THEN [c2 EXCEPT !.state = "CLOSED"]
       ELSE c2
  ELSE c1

\* onFailure opening only above the threshold.
onFailureStrict(cb, t) ==
  LET c1 == [cb EXCEPT !.failureCount = @ + 1, !.lastFailureTime = t] IN
  IF c1.failureCount > c1.threshold
  THEN [c1 EXCEPT !.state = "OPEN"]
  ELSE c1

onFailure(cb, t) ==
  LET c1 == [cb EXCEPT !.failureCount = @ + 1, !.lastFailureTime = t] IN
  IF c1.failureCount >= c1.threshold
  THEN [c1 EXCEPT !.state = "OPEN"]
  ELSE c1

\* ------------------------------------------------------------ retry policy

\* An absent optional field and an absent policy read as 0: the code takes
\* each value with `|| default`, which treats 0 and undefined alike.
NoPolicy == [present |-> FALSE, maxAttempts |-> 0, initialDelay |-> 0,
             backoffMultiplier |-> 0, maxDelay |-> 0]

OrDefault(v, d) == IF v = 0 THEN d ELSE v

retryMaxAttempts(p) == OrDefault(p.maxAttempts, DefaultMaxAttempts)
retryInitialDelay(p) == OrDefault(p.initialDelay, DefaultInitialDelay)
retryBackoffMultiplier(p) == OrDefault(p.backoffMultiplier, DefaultBackoffMultiplier)
retryMaxDelay(p) == OrDefault(p.maxDelay, DefaultMaxDelay)

\* ----------------------------------------------------------------- results

\* `data` is what run resolved with; in the model each agent's run resolves
\* with its own id.
Success == [success |-> TRUE, code |-> "", message |-> "", retryCount |-> 0,
            data |-> Null]
Failure(code, message) ==
  [success |-> FALSE, code |-> code, message |-> message, retryCount |-> 0,
   data |-> Null]
NoResult == [success |-> FALSE, code |-> "NONE", message |-> "", retryCount |-> 0,
             data |-> Null]

\* What Agent.run does with one call: it resolves, or it throws an Error.
RunOutcomes == {"ok", "error"}
RunErrorMessage == "Run failed"

\* A value run throws: an Error with a message, or a value of another type (a
\* string, a number, undefined).  `text` holds a string's characters and `num`
\* a number's value.
Thrown(type, text, num) == [type |-> type, text |-> text, num |-> num]
RunError == Thrown("Error", RunErrorMessage, 0)
ThrownValues == {RunError, Thrown("string", "boom", 0), Thrown("number", "", 42),
                 Thrown("undefined", "", 0)}

\* String(v) for a thrown value that is not an Error.
jsString(v) ==
  CASE v.type = "string" -> v.text
    [] v.type = "number" -> ToString(v.num)
    [] v.type = "undefined" -> "undefined"

\* formatError naming every thrown value an AGENT_ERROR.
formatErrorAlwaysAgent(v) == [code |-> "AGENT_ERROR", message |-> v.text]

\* Agent.formatError (the stack is left out).
formatError(v) ==
  IF v.type = "Error" THEN [code |-> "AGENT_ERROR", message |-> v.text]
                      ELSE [code |-> "UNKNOWN_ERROR", message |-> jsString(v)]

\* Agent.execute once run has settled: the status it sets, the Result it returns.
executeStatus(outcome) == IF outcome = "ok" THEN "COMPLETED" ELSE "FAILED"
executeResult(outcome) ==
  IF outcome = "ok" THEN Success
  ELSE Failure(formatError(RunError).code, formatError(RunError).message)
\* The Result of agent a's execute.
agentResult(a, outcome) ==
  [executeResult(outcome) EXCEPT !.data = IF outcome = "ok" THEN a ELSE Null]

\* ----------------------------------------------------------------- context

CtxFields == {"agentId", "requestId", "timestamp", "correlationId", "metadata"}

\* A Partial<AgentContext>: `given` names the properties the caller's object has.
PartialContext(given, agentId, requestId, correlationId, metadata) ==
  [given |-> given, agentId |-> agentId, requestId |-> requestId, timestamp |-> 0,
   correlationId |-> correlationId, metadata |-> metadata]

NoContext == PartialContext({}, Null, 0, Null, Null)

\* The partial contexts callers pass: any subset of the properties, with a
\* request id (0) and a timestamp (0) the orchestrator never generates.
PartialContexts ==
  { PartialContext(g, IF "agentId" \in g THEN a ELSE Null, 0,
                   IF "correlationId" \in g THEN "corr-1" ELSE Null,
                   IF "metadata" \in g THEN "meta-1" ELSE Null) :
      g \in SUBSET CtxFields, a \in AgentIds }

\* { agentId, requestId: generateRequestId(), timestamp: Date.now(), ...context }
buildContext(agentId, requestId, t, partial) ==
  LET generated == [agentId |-> agentId, requestId |-> requestId, timestamp |-> t,
                    correlationId |-> Null, metadata |-> Null]
      pick(f) == IF f \in partial.given THEN partial[f] ELSE generated[f]
  IN [given |-> CtxFields, agentId |-> pick("agentId"),
      requestId |-> pick("requestId"), timestamp |-> pick("timestamp"),
      correlationId |-> pick("correlationId"), metadata |-> pick("metadata")]

\* ------------------------------------------------------------ bus handlers

\* The handler registerAgent installs for an agent: a closure over its id.
OrchHandler(a) == [kind |-> "orchestrator", id |-> a]

\* A2ACommunicationBus.subscribe: the bus-side list, mirrored to the transport.
busSubscribe(a, h) ==
  /\ messageHandlers' = [messageHandlers EXCEPT ![a] = Append(@, h)]
  /\ handlers' = [handlers EXCEPT ![a] = Append(@, h)]

\* A2ACommunicationBus.unsubscribe for every id of `ids`.
busUnsubscribe(ids) ==
  /\ messageHandlers' = [a \in AgentIds |-> IF a \in ids THEN <<>> ELSE messageHandlers[a]]
  /\ handlers' = [a \in AgentIds |-> IF a \in ids THEN <<>> ELSE handlers[a]]

\* ------------------------------------------------------------ orchestrator

\* One executeAgent call.  ctx names the context object the call built (0:
\* none yet); threw: the gated primary execution raised; fbRuns counts the
\* calls of the fallback agent's execute and fbCtx is the context passed to it.
Idle == [pc |-> "idle", agent |-> Null, attempt |-> 0, delay |-> 0, error |-> "",
         refused |-> FALSE, stale |-> FALSE, fbAttempt |-> 0, result |-> NoResult,
         ctx |-> 0, threw |-> FALSE, fbRuns |-> 0, fbCtx |-> 0, reports |-> <<>>,
         fbUnregistered |-> FALSE]

\* What an orchestrator call threw at its caller: an Error has a message and
\* no code.
NotRaised == [op |-> "none", id |-> Null, code |-> "", message |-> ""]
Raised(op, id, message) == [op |-> op, id |-> id, code |-> "", message |-> message]

config == <<maxConcurrentAgents, fallbackEnabled, retryPolicy, fallbackAgent>>
clock == <<now, ticks, nCalls>>
bus == <<messageHandlers, handlers>>
registry == <<agents, fmAgents, circuitBreakers>>

\* AgentOrchestrator.registerAgent with an id that is already registered:
\* throw new Error(`Agent ${agentId} is already registered`).
registerDuplicate(a) ==
  /\ a \in agents
  /\ raised' = Raised("registerAgent", a, "Agent is already registered")
  /\ UNCHANGED <<config, clock, bus, registry, runningAgents, status, inv, unit>>

\* AgentOrchestrator.registerAgent with a new id; FallbackManager.registerAgent
\* replaces the breaker, so a call in flight for this id keeps the old one.
registerNew(a) ==
  /\ a \notin agents
  /\ agents' = agents \cup {a}
  /\ fmAgents' = fmAgents \cup {a}
  /\ circuitBreakers' = [circuitBreakers EXCEPT ![a] =
        NewCircuitBreaker(DefaultThreshold, DefaultTimeout, DefaultHalfOpenAttempts)]
  /\ inv' = [i \in Inv |->
        IF inv[i].agent = a /\ inv[i].pc \in {"run", "sleep", "cbSuccess", "cbFailure"}
        THEN [inv[i] EXCEPT !.stale = TRUE] ELSE inv[i]]
  /\ busSubscribe(a, OrchHandler(a))
  /\ raised' = NotRaised
  /\ UNCHANGED <<config, clock, runningAgents, status, unit>>

\* registerNew without the guard: the duplicate check left out.
registerUnchecked(a) ==
  /\ agents' = agents \cup {a}
  /\ fmAgents' = fmAgents \cup {a}
  /\ circuitBreakers' = [circuitBreakers EXCEPT ![a] =
        NewCircuitBreaker(DefaultThreshold, DefaultTimeout, DefaultHalfOpenAttempts)]
  /\ inv' = [i \in Inv |->
        IF inv[i].agent = a /\ inv[i].pc \in {"run", "sleep", "cbSuccess", "cbFailure"}
        THEN [inv[i] EXCEPT !.stale = TRUE] ELSE inv[i]]
  /\ busSubscribe(a, OrchHandler(a))
  /\ raised' = NotRaised
  /\ UNCHANGED <<config, clock, runningAgents, status, unit>>

registerAgent(a) == registerDuplicate(a) \/ registerNew(a)

\* unregisterAgent without the delete from runningAgents.
unregisterKeepsRunning(a) ==
  /\ agents' = agents \ {a}
  /\ busUnsubscribe({a})
  /\ raised' = NotRaised
  /\ UNCHANGED <<config, clock, fmAgents, circuitBreakers, status, inv, unit,
                 runningAgents>>

\* shutdown that unsubscribes nobody.
shutdownKeepsHandlers ==
  /\ agents' = {}
  /\ runningAgents' = {}
  /\ raised' = NotRaised
  /\ UNCHANGED <<config, clock, fmAgents, circuitBreakers, status, inv, unit, bus>>

\* unregisterAgent without the unsubscribe.
unregisterKeepsHandlers(a) ==
  /\ agents' = agents \ {a}
  /\ runningAgents' = runningAgents \ {a}
  /\ raised' = NotRaised
  /\ UNCHANGED <<config, clock, fmAgents, circuitBreakers, status, inv, unit, bus>>

\* unregisterAgent removing the agent from the FallbackManager as well.
unregisterFromFallbackManager(a) ==
  /\ agents' = agents \ {a}
  /\ fmAgents' = fmAgents \ {a}
  /\ circuitBreakers' = [circuitBreakers EXCEPT ![a] = NoBreaker]
  /\ busUnsubscribe({a})
  /\ runningAgents' = runningAgents \ {a}
  /\ raised' = NotRaised
  /\ UNCHANGED <<config, clock, status, inv, unit>>

unregisterAgent(a) ==
  /\ agents' = agents \ {a}
  /\ busUnsubscribe({a})
  /\ runningAgents' = runningAgents \ {a}
  /\ raised' = NotRaised
  /\ UNCHANGED <<config, clock, fmAgents, circuitBreakers, status, inv, unit>>

shutdown ==
  /\ busUnsubscribe(agents)
  /\ agents' = {}
  /\ runningAgents' = {}
  /\ raised' = NotRaised
  /\ UNCHANGED <<config, clock, fmAgents, circuitBreakers, status, inv, unit>>

\* CircuitBreaker.execute of a call in flight: the breaker it holds is the one
\* in the map unless the agent was registered again since the call began.
\* AgentOrchestrator.getCircuitState: the state of the agent's breaker in the
\* FallbackManager, undefined (Null) when it has none.
getCircuitState(a) ==
  IF circuitBreakers[a].state = "NONE" THEN Null ELSE circuitBreakers[a].state

holdsBreaker(i) == ~inv[i].stale /\ circuitBreakers[inv[i].agent].state # "NONE"

\* executeAgent for an id that is not registered: the returned promise carries
\* AGENT_NOT_FOUND.
executeNotFound(i, a) ==
  /\ inv[i].pc = "idle"
  /\ a \notin agents
  /\ inv' = [inv EXCEPT ![i] = [Idle EXCEPT !.pc = "returned", !.agent = a,
               !.result = Failure("AGENT_NOT_FOUND", "not found")]]
  /\ raised' = NotRaised
  /\ UNCHANGED <<config, clock, bus, registry, runningAgents, status, unit>>

\* The limit check of executeAgent: `maxConcurrentAgents && size >= max`.
atLimit == maxConcurrentAgents # 0 /\ Cardinality(runningAgents) >= maxConcurrentAgents

\* executeAtLimit with the limit check placed inside the try block, so that
\* the finally block deletes the id.
executeAtLimitInTry(i, a) ==
  /\ inv[i].pc = "idle"
  /\ a \in agents
  /\ atLimit
  /\ inv' = [inv EXCEPT ![i] = [Idle EXCEPT !.pc = "returned", !.agent = a,
               !.result = Failure("MAX_CONCURRENT_LIMIT", "limit reached")]]
  /\ runningAgents' = runningAgents \ {a}
  /\ raised' = NotRaised
  /\ UNCHANGED <<config, clock, bus, registry, status, unit>>

\* executeAgent turned away by the concurrency limit.
executeAtLimit(i, a) ==
  /\ inv[i].pc = "idle"
  /\ a \in agents
  /\ atLimit
  /\ inv' = [inv EXCEPT ![i] = [Idle EXCEPT !.pc = "returned", !.agent = a,
               !.result = Failure("MAX_CONCURRENT_LIMIT", "limit reached")]]
  /\ raised' = NotRaised
  /\ UNCHANGED <<config, clock, bus, registry, runningAgents, status, unit>>

\* executeAgent admitted: the id joins runningAgents and executeWithFallback
\* runs up to its first await: the breaker either throws (the catch block runs
\* after the await) or lets the retry loop start its first attempt, where
\* Agent.execute sets RUNNING and calls run.
executeAdmit(i, a) ==
  /\ inv[i].pc = "idle"
  /\ a \in agents
  /\ ~atLimit
  /\ nCalls < MaxCalls
  /\ nCalls' = nCalls + 1
  /\ runningAgents' = runningAgents \cup {a}
  /\ LET cb == circuitBreakers[a]
         started == [Idle EXCEPT !.agent = a, !.ctx = i] IN
     IF a \notin fmAgents
     THEN /\ inv' = [inv EXCEPT ![i] = [started EXCEPT !.pc = "finally",
                        !.result = Failure("AGENT_NOT_FOUND", "not found")]]
          /\ UNCHANGED <<circuitBreakers, status>>
     ELSE IF cb.state # "NONE" /\ cbRefuses(cb, now)
     THEN /\ inv' = [inv EXCEPT ![i] = [started EXCEPT !.pc = "caught",
                        !.error = "Circuit breaker is OPEN", !.refused = TRUE,
                        !.threw = TRUE]]
          /\ UNCHANGED <<circuitBreakers, status>>
     ELSE /\ circuitBreakers' = [circuitBreakers EXCEPT ![a] =
                IF cb.state # "NONE" THEN cbEnter(cb, now) ELSE cb]
          /\ inv' = [inv EXCEPT ![i] = [started EXCEPT !.pc = "run",
                        !.delay = retryInitialDelay(retryPolicy[a])]]
          /\ status' = [status EXCEPT ![a] = "RUNNING"]
  /\ raised' = NotRaised
  /\ UNCHANGED <<config, now, ticks, bus, agents, fmAgents, unit>>

\* run settles; Agent.execute sets the status and returns its Result to the
\* retry loop, which returns it (success), goes to sleep, or throws lastError.
\* runReturn reporting every failed attempt to the circuit breaker.
runReturnReportsAttempts(i, outcome) ==
  /\ inv[i].pc = "run"
  /\ LET a == inv[i].agent
         r == agentResult(a, outcome)
         more == inv[i].attempt < retryMaxAttempts(retryPolicy[a]) - 1 IN
     /\ status' = [status EXCEPT ![a] = executeStatus(outcome)]
     /\ circuitBreakers' = IF ~r.success /\ more /\ holdsBreaker(i)
           THEN [circuitBreakers EXCEPT ![a] = onFailure(@, now)]
           ELSE circuitBreakers
     /\ inv' = [inv EXCEPT ![i] =
          IF r.success
          THEN [@ EXCEPT !.pc = "cbSuccess",
                         !.result = [r EXCEPT !.retryCount = inv[i].attempt]]
          ELSE IF more
          THEN [@ EXCEPT !.pc = "sleep", !.error = r.message,
                         !.reports = Append(@, "failure")]
          ELSE [@ EXCEPT !.pc = "cbFailure", !.error = r.message]]
  /\ UNCHANGED <<config, clock, bus, agents, fmAgents, runningAgents, raised, unit>>

runReturn(i, outcome) ==
  /\ inv[i].pc = "run"
  /\ LET a == inv[i].agent
         r == agentResult(a, outcome) IN
     /\ status' = [status EXCEPT ![a] = executeStatus(outcome)]
     /\ inv' = [inv EXCEPT ![i] =
          IF r.success
          THEN [@ EXCEPT !.pc = "cbSuccess",
                         !.result = [r EXCEPT !.retryCount = inv[i].attempt]]
          ELSE IF inv[i].attempt < retryMaxAttempts(retryPolicy[a]) - 1
          THEN [@ EXCEPT !.pc = "sleep", !.error = r.message]
          ELSE [@ EXCEPT !.pc = "cbFailure", !.error = r.message]]
  /\ UNCHANGED <<config, clock, bus, registry, runningAgents, raised, unit>>

\* The sleep before a retry ends: the delay grows and the next attempt starts.
sleepDone(i) ==
  /\ inv[i].pc = "sleep"
  /\ LET a == inv[i].agent IN
     /\ inv' = [inv EXCEPT ![i] = [@ EXCEPT !.pc = "run", !.attempt = @ + 1,
                  !.delay = @ * retryBackoffMultiplier(retryPolicy[a])]]
     /\ status' = [status EXCEPT ![a] = "RUNNING"]
  /\ UNCHANGED <<config, clock, bus, registry, runningAgents, raised, unit>>

\* CircuitBreaker.execute after fn resolved: onSuccess, return the result.
cbSuccess(i) ==
  /\ inv[i].pc = "cbSuccess"
  /\ circuitBreakers' = IF holdsBreaker(i)
        THEN [circuitBreakers EXCEPT ![inv[i].agent] = onSuccess(@)]
        ELSE circuitBreakers
  /\ inv' = [inv EXCEPT ![i] = [@ EXCEPT !.pc = "finally", !.stale = FALSE,
                                          !.reports = Append(@, "success")]]
  /\ UNCHANGED <<config, clock, bus, agents, fmAgents, runningAgents, status,
                 raised, unit>>

\* CircuitBreaker.execute after fn rejected: onFailure, rethrow.
cbFailure(i) ==
  /\ inv[i].pc = "cbFailure"
  /\ circuitBreakers' = IF holdsBreaker(i)
        THEN [circuitBreakers EXCEPT ![inv[i].agent] = onFailure(@, now)]
        ELSE circuitBreakers
  /\ inv' = [inv EXCEPT ![i] = [@ EXCEPT !.pc = "caught", !.stale = FALSE,
                                          !.threw = TRUE,
                                          !.reports = Append(@, "failure")]]
  /\ UNCHANGED <<config, clock, bus, agents, fmAgents, runningAgents, status,
                 raised, unit>>

\* catchError with no catch block: the error leaves executeAgent.
catchErrorRethrow(i) ==
  /\ inv[i].pc = "caught"
  /\ inv' = [inv EXCEPT ![i].pc = "finally"]
  /\ raised' = Raised("executeAgent", inv[i].agent, inv[i].error)
  /\ UNCHANGED <<config, clock, bus, registry, runningAgents, status, unit>>

\* catchError reporting a fixed message in place of the error's own.
catchErrorFixedMessage(i) ==
  /\ inv[i].pc = "caught"
  /\ inv' = [inv EXCEPT ![i] = [@ EXCEPT !.pc = "finally",
               !.result = Failure("EXECUTION_FAILED", "Execution failed")]]
  /\ UNCHANGED <<config, clock, bus, registry, runningAgents, status, raised, unit>>

\* catchError that never tries the fallback agent.
catchErrorNoFallback(i) ==
  /\ inv[i].pc = "caught"
  /\ inv' = [inv EXCEPT ![i] = [@ EXCEPT !.pc = "finally",
               !.result = Failure("EXECUTION_FAILED", inv[i].error)]]
  /\ UNCHANGED <<config, clock, bus, registry, runningAgents, status, raised, unit>>

\* The catch block of executeWithFallback: executeFallback up to its first
\* await when fallback is enabled and the agent names one, else EXECUTION_FAILED.
catchError(i) ==
  /\ inv[i].pc = "caught"
  /\ LET f == fallbackAgent[inv[i].agent] IN
     IF fallbackEnabled /\ f # Null
     THEN IF f \notin fmAgents
          THEN /\ inv' = [inv EXCEPT ![i] = [@ EXCEPT !.pc = "finally",
                    !.result = Failure("FALLBACK_AGENT_NOT_FOUND", "fallback not found")]]
               /\ UNCHANGED status
          ELSE /\ inv' = [inv EXCEPT ![i] = [@ EXCEPT !.pc = "fbRun",
                    !.fbRuns = @ + 1, !.fbCtx = inv[i].ctx,
                    !.fbUnregistered = f \notin agents]]
               /\ status' = [status EXCEPT ![f] = "RUNNING"]
     ELSE /\ inv' = [inv EXCEPT ![i] = [@ EXCEPT !.pc = "finally",
                    !.result = Failure("EXECUTION_FAILED", inv[i].error)]]
          /\ UNCHANGED status
  /\ UNCHANGED <<config, clock, bus, registry, runningAgents, raised, unit>>

\* The fallback agent's run settles: executeFallback returns a success as it is.
fbRunReturn(i, outcome) ==
  /\ inv[i].pc = "fbRun"
  /\ LET f == fallbackAgent[inv[i].agent]
         r == agentResult(f, outcome) IN
     /\ status' = [status EXCEPT ![f] = executeStatus(outcome)]
     /\ inv' = [inv EXCEPT ![i] =
          IF r.success THEN [@ EXCEPT !.pc = "finally", !.result = r]
                       ELSE [@ EXCEPT !.pc = "fbNext"]]
  /\ UNCHANGED <<config, clock, bus, registry, runningAgents, raised, unit>>

\* fbNext with the loop bound off by one: `attempt <= maxAttempts`.
fbNextOneMore(i) ==
  /\ inv[i].pc = "fbNext"
  /\ LET f == fallbackAgent[inv[i].agent] IN
     IF inv[i].fbAttempt + 1 <= MaxFallbackAttempts
     THEN /\ inv' = [inv EXCEPT ![i] = [@ EXCEPT !.pc = "fbRun", !.fbAttempt = @ + 1,
                    !.fbRuns = @ + 1, !.fbCtx = inv[i].ctx]]
          /\ status' = [status EXCEPT ![f] = "RUNNING"]
     ELSE /\ inv' = [inv EXCEPT ![i] = [@ EXCEPT !.pc = "finally",
                    !.result = Failure("FALLBACK_FAILED", "fallback failed")]]
          /\ UNCHANGED status
  /\ UNCHANGED <<config, clock, bus, registry, runningAgents, raised, unit>>

\* executeFallback after a failed attempt: the next attempt, or FALLBACK_FAILED.
\* fbNext going on, once the attempts are used up, to the fallback agent's own
\* fallback.
fbNextFollowsChain(i) ==
  /\ inv[i].pc = "fbNext"
  /\ LET f == fallbackAgent[inv[i].agent] IN
     IF inv[i].fbAttempt + 1 < MaxFallbackAttempts
     THEN /\ inv' = [inv EXCEPT ![i] = [@ EXCEPT !.pc = "fbRun", !.fbAttempt = @ + 1,
                    !.fbRuns = @ + 1, !.fbCtx = inv[i].ctx]]
          /\ status' = [status EXCEPT ![f] = "RUNNING"]
     ELSE IF fallbackAgent[f] # Null
     THEN /\ inv' = [inv EXCEPT ![i] = [@ EXCEPT !.pc = "caught", !.agent = f,
                    !.fbAttempt = 0]]
          /\ UNCHANGED status
     ELSE /\ inv' = [inv EXCEPT ![i] = [@ EXCEPT !.pc = "finally",
                    !.result = Failure("FALLBACK_FAILED", "fallback failed")]]
          /\ UNCHANGED status
  /\ UNCHANGED <<config, clock, bus, registry, runningAgents, raised, unit>>

fbNext(i) ==
  /\ inv[i].pc = "fbNext"
  /\ LET f == fallbackAgent[inv[i].agent] IN
     IF inv[i].fbAttempt + 1 < MaxFallbackAttempts
     THEN /\ inv' = [inv EXCEPT ![i] = [@ EXCEPT !.pc = "fbRun", !.fbAttempt = @ + 1,
                    !.fbRuns = @ + 1, !.fbCtx = inv[i].ctx]]
          /\ status' = [status EXCEPT ![f] = "RUNNING"]
     ELSE /\ inv' = [inv EXCEPT ![i] = [@ EXCEPT !.pc = "finally",
                    !.result = Failure("FALLBACK_FAILED", "fallback failed")]]
          /\ UNCHANGED status
  /\ UNCHANGED <<config, clock, bus, registry, runningAgents, raised, unit>>

\* executeFinally without the finally block's delete.
executeFinallyNoDelete(i) ==
  /\ inv[i].pc = "finally"
  /\ inv' = [inv EXCEPT ![i].pc = "returned"]
  /\ UNCHANGED <<config, clock, bus, registry, runningAgents, status, raised, unit>>

\* The finally block of executeAgent; the promise then settles with the Result.
executeFinally(i) ==
  /\ inv[i].pc = "finally"
  /\ runningAgents' = runningAgents \ {inv[i].agent}
  /\ inv' = [inv EXCEPT ![i].pc = "returned"]
  /\ UNCHANGED <<config, clock, bus, registry, status, raised, unit>>

\* The caller of executeAgent resumes with the Result.
executeResume(i) ==
  /\ inv[i].pc = "returned"
  /\ inv' = [inv EXCEPT ![i] = Idle]
  /\ UNCHANGED <<config, clock, bus, registry, runningAgents, status, raised, unit>>

\* Time passes.  The clock is read only by the breakers, which all have the
\* default timeout, so it is advanced one timeout at a time: two readings are
\* then either less than a timeout apart (equal) or at least one apart.
Tick ==
  /\ ticks < MaxTicks
  /\ ticks' = ticks + 1
  /\ now' = now + DefaultTimeout
  /\ UNCHANGED <<nCalls, config, bus, registry, runningAgents, status, inv, raised, unit>>

\* The agents' configs: a1 retries once and names a2 as its fallback; a2 has
\* no retry policy and no fallback.
AgentRetryPolicy ==
  [a \in AgentIds |->
     IF a = "a1" THEN [present |-> TRUE, maxAttempts |-> 2, initialDelay |-> 10,
                       backoffMultiplier |-> 2, maxDelay |-> 1000]
                 ELSE NoPolicy]
AgentFallback == [a \in AgentIds |-> IF a = "a1" THEN "a2" ELSE Null]

NoUnit == [kind |-> "none"]

\* A freshly constructed orchestrator, bus and transport.
InitOrchestrator ==
  /\ retryPolicy = AgentRetryPolicy
  /\ fallbackAgent = AgentFallback
  /\ agents = {}
  /\ runningAgents = {}
  /\ fmAgents = {}
  /\ circuitBreakers = [a \in AgentIds |-> NoBreaker]
  /\ status = [a \in AgentIds |-> "IDLE"]
  /\ messageHandlers = [a \in AgentIds |-> <<>>]
  /\ handlers = [a \in AgentIds |-> <<>>]
  /\ inv = [i \in Inv |-> Idle]
  /\ raised = NotRaised
  /\ nCalls = 0
  /\ now = 1
  /\ ticks = 0

Init ==
  /\ maxConcurrentAgents \in 0..MaxCap
  /\ fallbackEnabled \in BOOLEAN
  /\ InitOrchestrator
  /\ unit = NoUnit

Next ==
  \/ \E a \in AgentIds : registerAgent(a)
  \/ \E a \in AgentIds : unregisterAgent(a)
  \/ shutdown
  \/ \E i \in Inv, a \in AgentIds : executeNotFound(i, a)
  \/ \E i \in Inv, a \in AgentIds : executeAtLimit(i, a)
  \/ \E i \in Inv, a \in AgentIds : executeAdmit(i, a)
  \/ \E i \in Inv, o \in RunOutcomes : runReturn(i, o)
  \/ \E i \in Inv : sleepDone(i)
  \/ \E i \in Inv : cbSuccess(i)
  \/ \E i \in Inv : cbFailure(i)
  \/ \E i \in Inv : catchError(i)
  \/ \E i \in Inv, o \in RunOutcomes : fbRunReturn(i, o)
  \/ \E i \in Inv : fbNext(i)
  \/ \E i \in Inv : executeFinally(i)
  \/ \E i \in Inv : executeResume(i)
  \/ Tick

Spec == Init /\ [][Next]_vars

\* onFailure applied n times at time t.
RECURSIVE failedTimes(_, _, _)
failedTimes(cb, n, t) == IF n = 0 THEN cb ELSE failedTimes(onFailure(cb, t), n - 1, t)

\* The orchestrator once both agents are registered and each has been executed
\* DefaultThreshold - 1 times with every run failing (a1's calls first, then
\* a2's): each breaker is one failure short of opening.
InitNearOpen ==
  /\ maxConcurrentAgents \in 0..MaxCap
  /\ fallbackEnabled \in BOOLEAN
  /\ retryPolicy = AgentRetryPolicy
  /\ fallbackAgent = AgentFallback
  /\ agents = AgentIds
  /\ runningAgents = {}
  /\ fmAgents = AgentIds
  /\ circuitBreakers = [a \in AgentIds |->
        failedTimes(NewCircuitBreaker(DefaultThreshold, DefaultTimeout,
                                      DefaultHalfOpenAttempts),
                    DefaultThreshold - 1, 1)]
  /\ status = [a \in AgentIds |-> "FAILED"]
  /\ messageHandlers = [a \in AgentIds |-> <<OrchHandler(a)>>]
  /\ handlers = [a \in AgentIds |-> <<OrchHandler(a)>>]
  /\ inv = [i \in Inv |-> Idle]
  /\ raised = NotRaised
  /\ nCalls = 0
  /\ now = 1
  /\ ticks = 0
  /\ unit = NoUnit

SpecNearOpen == InitNearOpen /\ [][Next]_vars

\* The orchestrator with both agents registered, for every assignment of
\* fallback agents (none, the other agent, the agent itself), running
\* executeAgent calls only.  An agent's run settles and a timer fires
\* eventually, and the event loop runs every continuation: each call that can
\* take a step eventually takes one.
FallbackConfigs == [AgentIds -> AgentIds \cup {Null}]

InitRegistered ==
  /\ maxConcurrentAgents = DefaultMaxConcurrentAgents
  /\ fallbackEnabled \in BOOLEAN
  /\ retryPolicy = AgentRetryPolicy
  /\ fallbackAgent \in FallbackConfigs
  /\ agents = AgentIds
  /\ runningAgents = {}
  /\ fmAgents = AgentIds
  /\ circuitBreakers = [a \in AgentIds |->
        NewCircuitBreaker(DefaultThreshold, DefaultTimeout, DefaultHalfOpenAttempts)]
  /\ status = [a \in AgentIds |-> "IDLE"]
  /\ messageHandlers = [a \in AgentIds |-> <<OrchHandler(a)>>]
  /\ handlers = [a \in AgentIds |-> <<OrchHandler(a)>>]
  /\ inv = [i \in Inv |-> Idle]
  /\ raised = NotRaised
  /\ nCalls = 0
  /\ now = 1
  /\ ticks = 0
  /\ unit = NoUnit

\* The next step of call i after it was admitted.
Continue(i) ==
  \/ \E o \in RunOutcomes : runReturn(i, o)
  \/ sleepDone(i)
  \/ cbSuccess(i)
  \/ cbFailure(i)
  \/ catchError(i)
  \/ \E o \in RunOutcomes : fbRunReturn(i, o)
  \/ fbNext(i)
  \/ executeFinally(i)

NextExecute ==
  \/ \E i \in Inv, a \in AgentIds : executeAdmit(i, a)
  \/ \E i \in Inv, o \in RunOutcomes : runReturn(i, o)
  \/ \E i \in Inv : sleepDone(i)
  \/ \E i \in Inv : cbSuccess(i)
  \/ \E i \in Inv : cbFailure(i)
  \/ \E i \in Inv : catchError(i)
  \/ \E i \in Inv, o \in RunOutcomes : fbRunReturn(i, o)
  \/ \E i \in Inv : fbNext(i)
  \/ \E i \in Inv : executeFinally(i)

SpecExecute ==
  /\ InitRegistered
  /\ [][NextExecute]_vars
  /\ \A i \in Inv : WF_vars(Continue(i))

\* ---------------------------------------------------- components on their own

orchVars == <<maxConcurrentAgents, fallbackEnabled, retryPolicy, fallbackAgent,
              agents, runningAgents, fmAgents, circuitBreakers, status,
              messageHandlers, handlers, inv, raised, nCalls, now, ticks>>

\* An orchestrator constructed with the default config and left alone.
InitDefaultOrchestrator ==
  /\ maxConcurrentAgents = DefaultMaxConcurrentAgents
  /\ fallbackEnabled = TRUE
  /\ InitOrchestrator

\* --- CircuitBreaker: one breaker, Gated callers of execute(fn).
\* unit.call[c] is where caller c stands: idle, inside fn, or holding the
\* 'Circuit breaker is OPEN' error execute threw at it.  unit.consecutive
\* counts the fn failures since the last fn success; unit.entered tells
\* whether the breaker has been HALF_OPEN, and unit.since counts the fn
\* successes since it last became HALF_OPEN (up to MaxHalfOpen);
\* unit.failures counts all fn failures (up to MaxThreshold).

Gated == 1..NumGated

InitBreaker ==
  /\ InitDefaultOrchestrator
  /\ \E th \in 1..MaxThreshold, to \in 1..MaxTimeout, ho \in 1..MaxHalfOpen :
       unit = [kind |-> "breaker", cb |-> NewCircuitBreaker(th, to, ho),
               call |-> [c \in Gated |-> "idle"], now |-> 1, consecutive |-> 0,
               entered |-> FALSE, since |-> 0, failures |-> 0]

\* execute(fn) up to the await of fn.
gate(c) ==
  /\ unit.kind = "breaker"
  /\ unit.call[c] = "idle"
  /\ unit' = IF cbRefuses(unit.cb, unit.now)
             THEN [unit EXCEPT !.call[c] = "refused"]
             ELSE IF unit.cb.state = "OPEN"
             THEN [unit EXCEPT !.cb = cbEnter(unit.cb, unit.now), !.call[c] = "fn",
                               !.entered = TRUE, !.since = 0]
             ELSE [unit EXCEPT !.cb = cbEnter(unit.cb, unit.now), !.call[c] = "fn"]
  /\ UNCHANGED orchVars

\* The caller receives the error of a refused call.
gateRaise(c) ==
  /\ unit.kind = "breaker"
  /\ unit.call[c] = "refused"
  /\ unit' = [unit EXCEPT !.call[c] = "idle"]
  /\ UNCHANGED orchVars

\* fn settles: onSuccess and return, or onFailure and rethrow.
fnReturn(c, outcome) ==
  /\ unit.kind = "breaker"
  /\ unit.call[c] = "fn"
  /\ unit' = IF outcome = "ok"
             THEN [unit EXCEPT !.cb = onSuccess(unit.cb), !.call[c] = "idle",
                               !.consecutive = 0, !.since = Min(@ + 1, MaxHalfOpen)]
             ELSE [unit EXCEPT !.cb = onFailure(unit.cb, unit.now), !.call[c] = "idle",
                               !.consecutive = @ + 1,
                               !.failures = Min(@ + 1, MaxThreshold)]
  /\ UNCHANGED orchVars

breakerTick ==
  /\ unit.kind = "breaker"
  /\ unit.now < MaxNow
  /\ unit' = [unit EXCEPT !.now = @ + 1]
  /\ UNCHANGED orchVars

NextBreaker ==
  \/ \E c \in Gated : gate(c)
  \/ \E c \in Gated : gateRaise(c)
  \/ \E c \in Gated, o \in RunOutcomes : fnReturn(c, o)
  \/ breakerTick

SpecBreaker == InitBreaker /\ [][NextBreaker]_vars

\* --- executeWithRetry: one call of the loop under one policy.
\* unit.runs counts the calls of agent.execute, unit.waits lists the sleeps.

RetryPolicies ==
  { [present |-> TRUE, maxAttempts |-> m, initialDelay |-> d,
     backoffMultiplier |-> b, maxDelay |-> x] :
      m \in 1..MaxAttempts, d \in 0..MaxInitialDelay, b \in 1..MaxMultiplier,
      x \in 0..MaxMaxDelay }

InitRetry ==
  /\ InitDefaultOrchestrator
  /\ \E p \in {q \in RetryPolicies : q.maxDelay >= q.initialDelay} \cup {NoPolicy} :
       unit = [kind |-> "retry", policy |-> p, pc |-> "attempt", attempt |-> 0,
               delay |-> retryInitialDelay(p), runs |-> 0, waits |-> <<>>,
               retryCount |-> 0]

\* retryRun reporting the number of the attempt, counted from 1.
retryRunCountsFromOne(outcome) ==
  /\ unit.kind = "retry"
  /\ unit.pc = "attempt"
  /\ unit' =
       IF outcome = "ok"
       THEN [unit EXCEPT !.runs = @ + 1, !.pc = "returned",
                         !.retryCount = unit.attempt + 1]
       ELSE IF unit.attempt < retryMaxAttempts(unit.policy) - 1
            THEN [unit EXCEPT !.runs = @ + 1, !.pc = "sleep",
                    !.waits = Append(@, Min(unit.delay, retryMaxDelay(unit.policy)))]
            ELSE [unit EXCEPT !.runs = @ + 1, !.pc = "thrown"]
  /\ UNCHANGED orchVars

\* One pass of the loop body: agent.execute settles; on failure the loop
\* sleeps, or on the last attempt leaves and throws.
retryRun(outcome) ==
  /\ unit.kind = "retry"
  /\ unit.pc = "attempt"
  /\ unit' =
       IF outcome = "ok"
       THEN [unit EXCEPT !.runs = @ + 1, !.pc = "returned", !.retryCount = unit.attempt]
       ELSE IF unit.attempt < retryMaxAttempts(unit.policy) - 1
            THEN [unit EXCEPT !.runs = @ + 1, !.pc = "sleep",
                    !.waits = Append(@, Min(unit.delay, retryMaxDelay(unit.policy)))]
            ELSE [unit EXCEPT !.runs = @ + 1, !.pc = "thrown"]
  /\ UNCHANGED orchVars

\* The sleep ends: delay *= backoffMultiplier, next attempt.
retrySleepDone ==
  /\ unit.kind = "retry"
  /\ unit.pc = "sleep"
  /\ unit' = [unit EXCEPT !.delay = @ * retryBackoffMultiplier(unit.policy),
                          !.attempt = @ + 1, !.pc = "attempt"]
  /\ UNCHANGED orchVars

NextRetry ==
  \/ \E o \in RunOutcomes : retryRun(o)
  \/ retrySleepDone

SpecRetry == InitRetry /\ [][NextRetry]_vars

\* --- executeAgent's context: the object literal of lines 112-117 applied to
\* a target id, a freshly generated request id and a caller's partial context.

InitContext ==
  /\ InitDefaultOrchestrator
  /\ unit = [kind |-> "context", nextRequest |-> 1, target |-> Null,
             generated |-> 0, ctx |-> NoContext]

\* generateRequestId: the n-th id generated is n.
generateRequestId(n) == n

executeContext(a, partial) ==
  /\ unit.kind = "context"
  /\ unit.nextRequest <= MaxRequests
  /\ unit' = [unit EXCEPT !.nextRequest = @ + 1, !.target = a,
                !.generated = generateRequestId(unit.nextRequest),
                !.ctx = buildContext(a, generateRequestId(unit.nextRequest),
                                     unit.nextRequest, partial)]
  /\ UNCHANGED orchVars

NextContext == \E a \in AgentIds, partial \in PartialContexts : executeContext(a, partial)

SpecContext == InitContext /\ [][NextContext]_vars

\* --- Agent: one instance of the base class, with callers of execute, suspend
\* and resume.  unit.call[c] is one execute call: where it stands, how its run
\* settled and the Result it returns.  unit.op is the last operation that acted
\* and the status it found.

Execs == 1..NumExec
\* What run resolves with.
RunValues == {"d1", "d2"}
\* How a run settles: it resolves with a value or throws one.
Resolved(v) == [ok |-> TRUE, value |-> v, thrown |-> RunError]
Rejected(t) == [ok |-> FALSE, value |-> Null, thrown |-> t]
RunSettlements == {Resolved(v) : v \in RunValues} \cup {Rejected(t) : t \in ThrownValues}
NotSettled == [ok |-> FALSE, value |-> Null, thrown |-> Thrown("none", "", 0)]

IdleExec == [pc |-> "idle", settled |-> NotSettled, result |-> NoResult,
             at |-> Null]
Did(name, before) == [name |-> name, before |-> before]

InitAgent ==
  /\ InitDefaultOrchestrator
  /\ unit = [kind |-> "agent", status |-> "IDLE", call |-> [c \in Execs |-> IdleExec],
             op |-> Did("new", "IDLE")]

\* execute refusing a SUSPENDED agent with a failure Result, run not called.
agentExecuteRefusesSuspended(c) ==
  /\ unit.kind = "agent"
  /\ unit.call[c].pc = "idle"
  /\ unit' = IF unit.status = "SUSPENDED"
             THEN [unit EXCEPT !.call[c] = [IdleExec EXCEPT !.pc = "returned",
                                  !.at = unit.status,
                                  !.result = Failure("AGENT_ERROR", "suspended")],
                               !.op = Did("execute", unit.status)]
             ELSE [unit EXCEPT !.status = "RUNNING",
                               !.call[c] = [IdleExec EXCEPT !.pc = "run", !.at = unit.status],
                               !.op = Did("execute", unit.status)]
  /\ UNCHANGED orchVars

\* Agent.execute up to the await of run.
agentExecute(c) ==
  /\ unit.kind = "agent"
  /\ unit.call[c].pc = "idle"
  /\ unit' = [unit EXCEPT !.status = "RUNNING",
                          !.call[c] = [IdleExec EXCEPT !.pc = "run", !.at = unit.status],
                          !.op = Did("execute", unit.status)]
  /\ UNCHANGED orchVars

\* run settles: the try block's COMPLETED and success Result, or the catch
\* block's FAILED and formatError; the (empty) cleanup; execute returns.
agentRunSettles(c, how) ==
  /\ unit.kind = "agent"
  /\ unit.call[c].pc = "run"
  /\ unit' = [unit EXCEPT
       !.status = IF how.ok THEN "COMPLETED" ELSE "FAILED",
       !.call[c] = [pc |-> "returned", settled |-> how,
                    result |-> IF how.ok THEN [Success EXCEPT !.data = how.value]
                               ELSE Failure(formatError(how.thrown).code,
                                            formatError(how.thrown).message),
                    at |-> unit.call[c].at],
       !.op = Did("settle", unit.status)]
  /\ UNCHANGED orchVars

\* The caller of execute resumes with the Result.
agentReturn(c) ==
  /\ unit.kind = "agent"
  /\ unit.call[c].pc = "returned"
  /\ unit' = [unit EXCEPT !.call[c] = IdleExec]
  /\ UNCHANGED orchVars

suspend ==
  /\ unit.kind = "agent"
  /\ unit' = [unit EXCEPT !.status = "SUSPENDED", !.op = Did("suspend", unit.status)]
  /\ UNCHANGED orchVars

\* resume returning to IDLE from every status.
resumeAlways ==
  /\ unit.kind = "agent"
  /\ unit' = [unit EXCEPT !.status = "IDLE", !.op = Did("resume", unit.status)]
  /\ UNCHANGED orchVars

resume ==
  /\ unit.kind = "agent"
  /\ unit' = [unit EXCEPT !.status = IF @ = "SUSPENDED" THEN "IDLE" ELSE @,
                          !.op = Did("resume", unit.status)]
  /\ UNCHANGED orchVars

NextAgent ==
  \/ \E c \in Execs : agentExecute(c)
  \/ \E c \in Execs, how \in RunSettlements : agentRunSettles(c, how)
  \/ \E c \in Execs : agentReturn(c)
  \/ suspend
  \/ resume

SpecAgent == InitAgent /\ [][NextAgent]_vars

\* --- Messages routed through the orchestrator: registerAgent,
\* unregisterAgent and shutdown with callers of AgentOrchestrator.sendMessage,
\* the bus being used only through the orchestrator.  The transport's table
\* is the orchestrator model's `handlers`; a send keeps the handler array it
\* fetched (unit.send[s].arr), which nothing pushes onto afterwards, since
\* registerAgent subscribes only an id that has no array.
\*   unit.sent      the messages constructed so far: their recipient, and
\*                  whether it was registered when the message was sent
\*   unit.handled   the calls of agent.handleMessage: <<agent, message>>
\*   unit.skipped   the handler calls that found their agent gone

Routes == 1..NumRoutes
IdleRoute == [pc |-> "idle", msg |-> 0, arr |-> <<>>, idx |-> 0]

InitRouting ==
  /\ InitDefaultOrchestrator
  /\ unit = [kind |-> "route", sent |-> <<>>, send |-> [s \in Routes |-> IdleRoute],
             handled |-> <<>>, skipped |-> 0]

\* The loop of transport.send at index idx: the orchestrator's handler runs
\* handleAgentMessage, which calls agent.handleMessage and awaits it when the
\* agent is registered and returns at once when it is not; past the end of
\* the array sendMessage returns the id.
\* handleAgentMessage passing the message on only when executeAgent would
\* admit the agent: below the limit and with the breaker not OPEN.
handleAgentMessageGated(u, s, idx) ==
  LET sl == u.send[s] IN
  IF idx > Len(sl.arr)
  THEN [u EXCEPT !.send[s] = [sl EXCEPT !.pc = "returned", !.idx = idx]]
  ELSE IF /\ sl.arr[idx].id \in agents
          /\ ~atLimit
          /\ circuitBreakers[sl.arr[idx].id].state # "OPEN"
  THEN [u EXCEPT !.send[s] = [sl EXCEPT !.pc = "handleMessage", !.idx = idx],
                 !.handled = Append(@, <<sl.arr[idx].id, sl.msg>>)]
  ELSE [u EXCEPT !.send[s] = [sl EXCEPT !.pc = "notFound", !.idx = idx],
                 !.skipped = @ + 1]

handleAgentMessage(u, s, idx) ==
  LET sl == u.send[s] IN
  IF idx > Len(sl.arr)
  THEN [u EXCEPT !.send[s] = [sl EXCEPT !.pc = "returned", !.idx = idx]]
  ELSE IF sl.arr[idx].id \in agents
  THEN [u EXCEPT !.send[s] = [sl EXCEPT !.pc = "handleMessage", !.idx = idx],
                 !.handled = Append(@, <<sl.arr[idx].id, sl.msg>>)]
  ELSE [u EXCEPT !.send[s] = [sl EXCEPT !.pc = "notFound", !.idx = idx],
                 !.skipped = @ + 1]

\* AgentOrchestrator.sendMessage up to its first await: the bus constructs
\* the message, the transport fetches the recipient's handlers and calls the
\* first.
orchSendMessage(from, to) ==
  /\ unit.kind = "route"
  /\ Len(unit.sent) < MaxRouted
  /\ \E s \in Routes :
       /\ unit.send[s].pc = "idle"
       /\ \A t \in Routes : unit.send[t].pc = "idle" => s <= t
       /\ unit' = handleAgentMessage(
            [unit EXCEPT !.sent = Append(@, [from |-> from, to |-> to,
                                             registered |-> to \in agents,
                                             atLimit |-> atLimit,
                                             open |-> circuitBreakers[to].state = "OPEN"]),
                         !.send[s] = [IdleRoute EXCEPT !.msg = Len(unit.sent) + 1,
                                                       !.arr = handlers[to]]],
            s, 1)
  /\ UNCHANGED orchVars

\* The handler a send awaits resolves: handleMessage settled (what it throws
\* is caught), or the agent was not found.  The loop goes on.
handleMessageSettles(s) ==
  /\ unit.kind = "route"
  /\ unit.send[s].pc \in {"handleMessage", "notFound"}
  /\ unit' = handleAgentMessage(unit, s, unit.send[s].idx + 1)
  /\ UNCHANGED orchVars

\* The caller of sendMessage resumes with the id.
orchSendResume(s) ==
  /\ unit.kind = "route"
  /\ unit.send[s].pc = "returned"
  /\ unit' = [unit EXCEPT !.send[s] = IdleRoute]
  /\ UNCHANGED orchVars

NextRouting ==
  \/ \E a \in AgentIds : registerAgent(a)
  \/ \E a \in AgentIds : unregisterAgent(a)
  \/ shutdown
  \/ \E from \in AgentIds, to \in AgentIds : orchSendMessage(from, to)
  \/ \E s \in Routes : handleMessageSettles(s)
  \/ \E s \in Routes : orchSendResume(s)

SpecRouting == InitRouting /\ [][NextRouting]_vars

\* Messages routed while the orchestrator is busy: both agents are
\* registered, the limit is 1 and a call for a1 is running, and a2's breaker
\* is OPEN after DefaultThreshold failed calls.
InitRoutingBusy ==
  /\ maxConcurrentAgents = 1
  /\ fallbackEnabled \in BOOLEAN
  /\ retryPolicy = AgentRetryPolicy
  /\ fallbackAgent = AgentFallback
  /\ agents = AgentIds
  /\ runningAgents = {"a1"}
  /\ fmAgents = AgentIds
  /\ circuitBreakers = [a \in AgentIds |->
        failedTimes(NewCircuitBreaker(DefaultThreshold, DefaultTimeout,
                                      DefaultHalfOpenAttempts),
                    IF a = "a2" THEN DefaultThreshold ELSE 0, 1)]
  /\ status = [a \in AgentIds |-> IF a = "a1" THEN "RUNNING" ELSE "FAILED"]
  /\ messageHandlers = [a \in AgentIds |-> <<OrchHandler(a)>>]
  /\ handlers = [a \in AgentIds |-> <<OrchHandler(a)>>]
  /\ inv = [i \in Inv |->
        IF i = 1 THEN [Idle EXCEPT !.pc = "run", !.agent = "a1", !.ctx = 1,
                                   !.delay = retryInitialDelay(retryPolicy["a1"])]
                 ELSE Idle]
  /\ raised = NotRaised
  /\ nCalls = 1
  /\ now = 1
  /\ ticks = 0
  /\ unit = [kind |-> "route", sent |-> <<>>, send |-> [s \in Routes |-> IdleRoute],
             handled |-> <<>>, skipped |-> 0]

NextRoutingBusy ==
  \/ \E i \in Inv, a \in AgentIds : executeAtLimit(i, a)
  \/ \E i \in Inv, a \in AgentIds : executeAdmit(i, a)
  \/ \E i \in Inv, o \in RunOutcomes : runReturn(i, o)
  \/ \E i \in Inv : sleepDone(i)
  \/ \E i \in Inv : cbSuccess(i)
  \/ \E i \in Inv : cbFailure(i)
  \/ \E i \in Inv : catchError(i)
  \/ \E i \in Inv, o \in RunOutcomes : fbRunReturn(i, o)
  \/ \E i \in Inv : fbNext(i)
  \/ \E i \in Inv : executeFinally(i)
  \/ \E i \in Inv : executeResume(i)
  \/ \E from \in AgentIds, to \in AgentIds : orchSendMessage(from, to)
  \/ \E s \in Routes : handleMessageSettles(s)
  \/ \E s \in Routes : orchSendResume(s)

SpecRoutingBusy == InitRoutingBusy /\ [][NextRoutingBusy]_vars

\* --- A2ACommunicationBus over InMemoryMessageTransport.
\* Objects are named by numbers: message n is the n-th message constructed,
\* handler n the callback passed to the n-th subscribe, array n the n-th
\* handler array the transport created.  unit.msgs, unit.hkind and
\* unit.arrays hold the objects; the maps and queues hold their numbers.
\*   handlers[a]        transport.handlers: the array of a, 0 when absent
\*   messageHandlers[a] bus.messageHandlers: the handlers of a
\*   messages[a]        transport.messages: the queue of a
\*   send[s]            one sendMessage call: where it stands in the loop of
\*                      transport.send over its handler array
\*   bc                 one broadcast call
\* and, as history: log lists the handler invocations <<handler, message>> in
\* order; recv[a] everything receiveMessages(a) has returned; installed[m] the
\* handlers installed for the recipient when message m was sent; unsubAt[h] the
\* number of messages constructed when handler h was unsubscribed (0: never);
\* caught counts the handleMessage errors the orchestrator's handlers caught.

Sends == 1..NumSends
MsgIds == 1..MaxMsgs
HandlerIds == 1..MaxSubs
HandlerKinds == {"plain", "orch"}
\* The options callers pass: none, or a priority and a correlation id.
SendOptions == {[priority |-> Null, correlationId |-> Null],
                [priority |-> "HIGH", correlationId |-> "X"]}

\* priorityOrDefault ignoring the option.
priorityAlwaysNormal(p) == "NORMAL"

\* options?.priority || MessagePriority.NORMAL
priorityOrDefault(p) == IF p = Null THEN "NORMAL" ELSE p

\* The AgentMessage sendMessage constructs; generateMessageId gives the n-th
\* message the id n.
newMessage(n, from, to, type, payload, opts) ==
  [id |-> n, from |-> from, to |-> to, type |-> type, payload |-> payload,
   priority |-> priorityOrDefault(opts.priority),
   correlationId |-> opts.correlationId]

NoArgs == [from |-> Null, to |-> Null, type |-> Null, payload |-> Null,
           opts |-> Null]
\* args keeps the arguments the call was made with.
IdleSend == [pc |-> "idle", msg |-> 0, arr |-> 0, idx |-> 0, ret |-> 0,
             owner |-> "none", args |-> NoArgs]
IdleBroadcast == [pc |-> "idle", from |-> Null, recipients |-> <<>>, opts |-> Null,
                  k |-> 0, ids |-> <<>>, slot |-> 0,
                  out |-> [kind |-> "none", ids |-> <<>>]]

InitBus ==
  /\ InitDefaultOrchestrator
  /\ unit = [kind |-> "bus", msgs |-> <<>>, hkind |-> <<>>, arrays |-> <<>>,
             handlers |-> [a \in AgentIds |-> 0],
             messageHandlers |-> [a \in AgentIds |-> <<>>],
             messages |-> [a \in AgentIds |-> <<>>],
             messageQueue |-> [a \in AgentIds |-> <<>>],
             send |-> [s \in Sends |-> IdleSend],
             bc |-> IdleBroadcast,
             log |-> <<>>, recv |-> [a \in AgentIds |-> <<>>],
             installed |-> <<>>, unsubAt |-> <<>>, caught |-> 0]

\* The handler array a send iterates: `this.handlers.get(message.to) || []`.
arrayOf(u, arr) == IF arr = 0 THEN <<>> ELSE u.arrays[arr]

\* deliverFrom walking the array from its end.
deliverFromBackwards(u, s, idx) ==
  LET sl == u.send[s]
      hs == arrayOf(u, sl.arr) IN
  IF idx <= Len(hs)
  THEN [u EXCEPT !.send[s] = [sl EXCEPT !.pc = "handler", !.idx = idx],
                 !.log = Append(@, <<hs[Len(hs) + 1 - idx], sl.msg>>)]
  ELSE [u EXCEPT !.send[s] = [sl EXCEPT !.pc = "returned", !.idx = idx,
                                        !.ret = u.msgs[sl.msg].id]]

\* The loop of transport.send at index idx of its array: call the handler
\* there and await it, or leave the loop, so that sendMessage returns the id.
deliverFrom(u, s, idx) ==
  LET sl == u.send[s]
      hs == arrayOf(u, sl.arr) IN
  IF idx <= Len(hs)
  THEN [u EXCEPT !.send[s] = [sl EXCEPT !.pc = "handler", !.idx = idx],
                 !.log = Append(@, <<hs[idx], sl.msg>>)]
  ELSE [u EXCEPT !.send[s] = [sl EXCEPT !.pc = "returned", !.idx = idx,
                                        !.ret = u.msgs[sl.msg].id]]

\* sendMessage up to its first await: construct the message, transport.send
\* appends it to the recipient's queue, fetches the handler array and calls
\* the first handler.
startSend(u, s, from, to, type, payload, opts, owner) ==
  LET n == Len(u.msgs) + 1
      m == newMessage(n, from, to, type, payload, opts)
      u1 == [u EXCEPT !.msgs = Append(@, m),
                      !.messages[to] = Append(@, n),
                      !.installed = Append(@, arrayOf(u, u.handlers[to])),
                      !.send[s] = [IdleSend EXCEPT !.msg = n, !.arr = u.handlers[to],
                                     !.owner = owner,
                                     !.args = [from |-> from, to |-> to, type |-> type,
                                               payload |-> payload, opts |-> opts]]]
  IN deliverFrom(u1, s, 1)

\* bus.subscribe(a, handler): the handler joins bus.messageHandlers and, in
\* transport.subscribe, the array of a, which is created when absent.
subscribe(a, kind) ==
  /\ unit.kind = "bus"
  /\ Len(unit.hkind) < MaxSubs
  /\ LET h == Len(unit.hkind) + 1
         arr == unit.handlers[a] IN
     unit' = [unit EXCEPT
       !.hkind = Append(@, kind),
       !.unsubAt = Append(@, 0),
       !.messageHandlers[a] = Append(@, h),
       !.arrays = IF arr = 0 THEN Append(@, <<h>>)
                             ELSE [@ EXCEPT ![arr] = Append(@, h)],
       !.handlers[a] = IF arr = 0 THEN Len(unit.arrays) + 1 ELSE arr]
  /\ UNCHANGED orchVars

\* unsubscribe that leaves the transport's handlers in place.
unsubscribeBusOnly(a) ==
  /\ unit.kind = "bus"
  /\ LET old == arrayOf(unit, unit.handlers[a]) IN
     unit' = [unit EXCEPT
       !.messageHandlers[a] = <<>>,
       !.unsubAt = [h \in DOMAIN unit.unsubAt |->
                      IF \E k \in DOMAIN old : old[k] = h
                      THEN Len(unit.msgs) + 1 ELSE unit.unsubAt[h]]]
  /\ UNCHANGED orchVars

\* bus.unsubscribe(a): both maps drop their entry for a.
unsubscribe(a) ==
  /\ unit.kind = "bus"
  /\ LET old == arrayOf(unit, unit.handlers[a]) IN
     unit' = [unit EXCEPT
       !.messageHandlers[a] = <<>>,
       !.handlers[a] = 0,
       !.unsubAt = [h \in DOMAIN unit.unsubAt |->
                      IF \E k \in DOMAIN old : old[k] = h
                      THEN Len(unit.msgs) + 1 ELSE unit.unsubAt[h]]]
  /\ UNCHANGED orchVars

\* The idle sendMessage slot a new call takes.
freeSlot(u) == CHOOSE s \in Sends :
  u.send[s].pc = "idle" /\ \A t \in Sends : u.send[t].pc = "idle" => s <= t

\* A caller's bus.sendMessage(from, to, type, payload, options).
sendMessage(from, to, opts) ==
  /\ unit.kind = "bus"
  /\ \E s \in Sends : unit.send[s].pc = "idle"
  /\ Len(unit.msgs) < MaxMsgs
  /\ unit' = startSend(unit, freeSlot(unit), from, to, "test", "data", opts, "caller")
  /\ UNCHANGED orchVars

\* handlerSettles where the orchestrator's handler has no try/catch.
\* handlerSettles taking a message off the recipient's queue once a handler
\* has dealt with it.
handlerSettlesDequeues(s, outcome) ==
  /\ unit.kind = "bus"
  /\ unit.send[s].pc = "handler"
  /\ LET sl == unit.send[s]
         h == arrayOf(unit, sl.arr)[sl.idx]
         u == [unit EXCEPT !.messages[unit.msgs[sl.msg].to] =
                 SelectSeq(@, LAMBDA n : n # sl.msg)] IN
     unit' = IF outcome = "error" /\ unit.hkind[h] = "plain"
             THEN [u EXCEPT !.send[s].pc = "thrown"]
             ELSE IF outcome = "error"
             THEN deliverFrom([u EXCEPT !.caught = @ + 1], s, sl.idx + 1)
             ELSE deliverFrom(u, s, sl.idx + 1)
  /\ UNCHANGED orchVars

handlerSettlesNoCatch(s, outcome) ==
  /\ unit.kind = "bus"
  /\ unit.send[s].pc = "handler"
  /\ unit' = IF outcome = "error"
             THEN [unit EXCEPT !.send[s].pc = "thrown"]
             ELSE deliverFrom(unit, s, unit.send[s].idx + 1)
  /\ UNCHANGED orchVars

\* The handler a send awaits settles.  A plain handler that rejects makes
\* transport.send, and so sendMessage, reject; the orchestrator's handler
\* catches what handleMessage throws and resolves.  The loop then goes on.
handlerSettles(s, outcome) ==
  /\ unit.kind = "bus"
  /\ unit.send[s].pc = "handler"
  /\ LET sl == unit.send[s]
         h == arrayOf(unit, sl.arr)[sl.idx] IN
     unit' = IF outcome = "error" /\ unit.hkind[h] = "plain"
             THEN [unit EXCEPT !.send[s].pc = "thrown"]
             ELSE IF outcome = "error"
             THEN deliverFrom([unit EXCEPT !.caught = @ + 1], s, sl.idx + 1)
             ELSE deliverFrom(unit, s, sl.idx + 1)
  /\ UNCHANGED orchVars

\* The caller of sendMessage resumes with the id or the error.
sendResume(s) ==
  /\ unit.kind = "bus"
  /\ unit.send[s].pc \in {"returned", "thrown"}
  /\ unit.send[s].owner = "caller"
  /\ unit' = [unit EXCEPT !.send[s] = IdleSend]
  /\ UNCHANGED orchVars

\* receiveMessages returning what every agent's queue holds.
receiveMessagesAll(a) ==
  /\ unit.kind = "bus"
  /\ unit' = [unit EXCEPT
       !.recv[a] = @ \o unit.messageQueue[a] \o unit.messages["a1"] \o unit.messages["a2"],
       !.messages = [b \in AgentIds |-> <<>>],
       !.messageQueue[a] = <<>>]
  /\ UNCHANGED orchVars

\* receiveMessages where transport.receive leaves the queue as it is.
receiveMessagesNoClear(a) ==
  /\ unit.kind = "bus"
  /\ unit' = [unit EXCEPT
       !.recv[a] = @ \o unit.messageQueue[a] \o unit.messages[a],
       !.messageQueue[a] = <<>>]
  /\ UNCHANGED orchVars

\* bus.receiveMessages(a): transport.receive empties the queue of a; the
\* result is the bus's own queued messages followed by the transport's.
receiveMessages(a) ==
  /\ unit.kind = "bus"
  /\ unit' = [unit EXCEPT
       !.recv[a] = @ \o unit.messageQueue[a] \o unit.messages[a],
       !.messages[a] = <<>>,
       !.messageQueue[a] = <<>>]
  /\ UNCHANGED orchVars

BroadcastLists == UNION {[1..n -> AgentIds] : n \in 0..MaxBroadcast}

\* bus.broadcast(from, recipients, type, payload, options) up to its first
\* await: the sendMessage for the first recipient, or [] for no recipients.
broadcast(from, recipients, opts) ==
  /\ unit.kind = "bus"
  /\ unit.bc.pc = "idle"
  /\ Len(unit.msgs) + Len(recipients) <= MaxMsgs
  /\ IF Len(recipients) = 0
     THEN unit' = [unit EXCEPT !.bc = [IdleBroadcast EXCEPT !.pc = "returned",
                     !.from = from, !.opts = opts,
                     !.out = [kind |-> "ids", ids |-> <<>>]]]
     ELSE /\ \E s \in Sends : unit.send[s].pc = "idle"
          /\ LET s == freeSlot(unit) IN
             unit' = [startSend(unit, s, from, recipients[1], "test", "data", opts, "bc")
                        EXCEPT !.bc = [IdleBroadcast EXCEPT !.pc = "sending",
                          !.from = from, !.recipients = recipients, !.opts = opts,
                          !.k = 1, !.slot = s]]
  /\ UNCHANGED orchVars

\* broadcastNext that forgets the ids of all but the last recipient.
broadcastNextNoPush ==
  /\ unit.kind = "bus"
  /\ unit.bc.pc = "sending"
  /\ LET b == unit.bc
         sl == unit.send[b.slot]
         freed == [unit EXCEPT !.send[b.slot] = IdleSend] IN
     /\ sl.pc \in {"returned", "thrown"}
     /\ unit' =
          IF sl.pc = "thrown"
          THEN [freed EXCEPT !.bc = [b EXCEPT !.pc = "thrown",
                                        !.out = [kind |-> "error", ids |-> <<>>]]]
          ELSE IF b.k < Len(b.recipients)
          THEN [startSend(freed, b.slot, b.from, b.recipients[b.k + 1], "test", "data",
                          b.opts, "bc")
                  EXCEPT !.bc = [b EXCEPT !.k = @ + 1]]
          ELSE [freed EXCEPT !.bc = [b EXCEPT !.pc = "returned",
                                        !.ids = Append(@, sl.ret),
                                        !.out = [kind |-> "ids",
                                                 ids |-> Append(b.ids, sl.ret)]]]
  /\ UNCHANGED orchVars

\* broadcast resumes after its sendMessage settled: a rejection leaves the
\* loop and rejects the broadcast with that error; an id is pushed and the
\* next recipient's sendMessage starts, or the ids are returned.
broadcastNext ==
  /\ unit.kind = "bus"
  /\ unit.bc.pc = "sending"
  /\ LET b == unit.bc
         sl == unit.send[b.slot]
         freed == [unit EXCEPT !.send[b.slot] = IdleSend] IN
     /\ sl.pc \in {"returned", "thrown"}
     /\ unit' =
          IF sl.pc = "thrown"
          THEN [freed EXCEPT !.bc = [b EXCEPT !.pc = "thrown",
                                        !.out = [kind |-> "error", ids |-> <<>>]]]
          ELSE IF b.k < Len(b.recipients)
          THEN [startSend(freed, b.slot, b.from, b.recipients[b.k + 1], "test", "data",
                          b.opts, "bc")
                  EXCEPT !.bc = [b EXCEPT !.k = @ + 1, !.ids = Append(@, sl.ret)]]
          ELSE [freed EXCEPT !.bc = [b EXCEPT !.pc = "returned",
                                        !.ids = Append(@, sl.ret),
                                        !.out = [kind |-> "ids",
                                                 ids |-> Append(b.ids, sl.ret)]]]
  /\ UNCHANGED orchVars

\* The caller of broadcast resumes with the ids or the error.
broadcastResume ==
  /\ unit.kind = "bus"
  /\ unit.bc.pc \in {"returned", "thrown"}
  /\ unit' = [unit EXCEPT !.bc = IdleBroadcast]
  /\ UNCHANGED orchVars

\* Callers that subscribe, unsubscribe, send and receive.
NextBus ==
  \/ \E a \in AgentIds, kind \in HandlerKinds : subscribe(a, kind)
  \/ \E a \in AgentIds : unsubscribe(a)
  \/ \E from \in AgentIds, to \in AgentIds, opts \in SendOptions :
       sendMessage(from, to, opts)
  \/ \E s \in Sends, o \in RunOutcomes : handlerSettles(s, o)
  \/ \E s \in Sends : sendResume(s)
  \/ \E a \in AgentIds : receiveMessages(a)

SpecBus == InitBus /\ [][NextBus]_vars

\* Callers that subscribe, unsubscribe, broadcast and receive.
NextBroadcast ==
  \/ \E a \in AgentIds, kind \in HandlerKinds : subscribe(a, kind)
  \/ \E a \in AgentIds : unsubscribe(a)
  \/ \E s \in Sends, o \in RunOutcomes : handlerSettles(s, o)
  \/ \E a \in AgentIds : receiveMessages(a)
  \/ \E from \in AgentIds, recipients \in BroadcastLists, opts \in SendOptions :
       broadcast(from, recipients, opts)
  \/ broadcastNext
  \/ broadcastResume

SpecBroadcast == InitBus /\ [][NextBroadcast]_vars

\* ------------------------------------------------- SQSMessageTransport
\* The queue-based transport on its own.  unit.queue holds the messages a
\* ReceiveMessage can return, unit.to their recipients, unit.deleted the
\* messages removed by DeleteMessage.  unit.run[p] is a running receive: one
\* started by the polling timer of a subscription (kind "poll") or one called
\* directly (kind "receive").  unit.offered records the handler calls and
\* unit.returned the messages handed to a direct caller.

NumSqsMsgs == 2
NumPolls == 2
MaxSqsSubs == 2
SqsMsgs == 1..NumSqsMsgs
Polls == 1..NumPolls
SqsHandlerOutcomes == {"ok", "throw"}

IdlePoll == [pc |-> "idle", agent |-> Null, kind |-> Null, batch |-> <<>>,
             idx |-> 0, messages |-> <<>>, agentHandlers |-> <<>>,
             mi |-> 0, hi |-> 0]

InitSqs ==
  /\ InitDefaultOrchestrator
  /\ unit = [kind |-> "sqs", to |-> [m \in SqsMsgs |-> Null], queue |-> {},
             deleted |-> {}, handlers |-> [a \in AgentIds |-> <<>>],
             pollingIntervals |-> {}, nsub |-> 0,
             run |-> [p \in Polls |-> IdlePoll],
             offered |-> {}, returned |-> {}]

\* The messages of S as the Messages array of one ReceiveMessage response.
sqsBatch(S) ==
  CHOOSE sq \in [1..Cardinality(S) -> S] :
    \A j, k \in 1..Cardinality(S) : j < k => sq[j] < sq[k]

\* The first position after idx of a message addressed to a, or Len + 1.
nextForAgent(u, batch, idx, a) ==
  LET J == {j \in (idx + 1)..Len(batch) : u.to[batch[j]] = a} IN
  IF J = {} THEN Len(batch) + 1 ELSE CHOOSE j \in J : \A k \in J : j <= k

\* receive of run p returns msgs: a direct caller gets them; the polling
\* callback reads the handlers of the agent now and calls them in turn.
sqsReceiveReturns(u, p, msgs) ==
  LET r == u.run[p]
      hs == u.handlers[r.agent] IN
  IF r.kind = "receive"
  THEN [u EXCEPT !.returned = @ \cup {msgs[k] : k \in DOMAIN msgs},
                 !.run[p] = IdlePoll]
  ELSE IF msgs = <<>> \/ hs = <<>>
  THEN [u EXCEPT !.run[p] = IdlePoll]
  ELSE [u EXCEPT !.offered = @ \cup {<<msgs[1], hs[1]>>},
                 !.run[p] = [r EXCEPT !.pc = "handler", !.messages = msgs,
                                      !.agentHandlers = hs, !.mi = 1, !.hi = 1]]

\* The loop of receive from position idx on: up to the next message for the
\* agent, which is pushed and whose DeleteMessage is awaited, or to the end.
sqsReceiveLoop(u, p, batch, idx, msgs) ==
  LET r == u.run[p]
      j == nextForAgent(u, batch, idx, r.agent) IN
  IF j <= Len(batch)
  THEN [u EXCEPT !.run[p] = [r EXCEPT !.pc = "delete", !.batch = batch, !.idx = j,
                                      !.messages = Append(msgs, batch[j])]]
  ELSE sqsReceiveReturns(u, p, msgs)

sqsSend(m, to) ==
  /\ unit.kind = "sqs"
  /\ unit.to[m] = Null
  /\ \A k \in SqsMsgs : k < m => unit.to[k] # Null
  /\ unit' = [unit EXCEPT !.to[m] = to, !.queue = @ \cup {m}]
  /\ UNCHANGED orchVars

sqsSubscribe(a) ==
  /\ unit.kind = "sqs"
  /\ unit.nsub < MaxSqsSubs
  /\ unit' = [unit EXCEPT !.nsub = @ + 1,
                          !.handlers[a] = Append(@, unit.nsub + 1),
                          !.pollingIntervals = @ \cup {a}]
  /\ UNCHANGED orchVars

sqsUnsubscribe(a) ==
  /\ unit.kind = "sqs"
  /\ unit' = [unit EXCEPT !.handlers[a] = <<>>,
                          !.pollingIntervals = @ \ {a}]
  /\ UNCHANGED orchVars

freePoll(p) ==
  /\ unit.run[p].pc = "idle"
  /\ \A q \in Polls : q < p => unit.run[q].pc # "idle"

\* The interval timer of a's subscription fires: the callback calls receive.
sqsPollTick(a, p) ==
  /\ unit.kind = "sqs"
  /\ a \in unit.pollingIntervals
  /\ freePoll(p)
  /\ unit' = [unit EXCEPT !.run[p] = [IdlePoll EXCEPT !.pc = "response",
                                                      !.agent = a, !.kind = "poll"]]
  /\ UNCHANGED orchVars

sqsReceive(a, p) ==
  /\ unit.kind = "sqs"
  /\ freePoll(p)
  /\ unit' = [unit EXCEPT !.run[p] = [IdlePoll EXCEPT !.pc = "response",
                                                      !.agent = a, !.kind = "receive"]]
  /\ UNCHANGED orchVars

\* The ReceiveMessage response arrives with the messages S.  Those for the
\* agent stay with this receive until deleted; the others remain in the queue.
sqsResponse(p, S) ==
  /\ unit.kind = "sqs"
  /\ unit.run[p].pc = "response"
  /\ S \subseteq unit.queue
  /\ LET mine == {m \in S : unit.to[m] = unit.run[p].agent}
         u == [unit EXCEPT !.queue = @ \ mine] IN
     unit' = sqsReceiveLoop(u, p, sqsBatch(S), 0, <<>>)
  /\ UNCHANGED orchVars

\* The DeleteMessage awaited by receive has completed.
sqsDeleted(p) ==
  /\ unit.kind = "sqs"
  /\ unit.run[p].pc = "delete"
  /\ LET r == unit.run[p]
         u == [unit EXCEPT !.deleted = @ \cup {r.batch[r.idx]}] IN
     unit' = sqsReceiveLoop(u, p, r.batch, r.idx, r.messages)
  /\ UNCHANGED orchVars

\* The handler awaited by the polling callback settles; a rejection ends the
\* callback, otherwise the next handler, or the next message, is taken.
sqsHandlerSettles(p, outcome) ==
  /\ unit.kind = "sqs"
  /\ unit.run[p].pc = "handler"
  /\ LET r == unit.run[p] IN
     unit' = IF outcome = "throw"
             THEN [unit EXCEPT !.run[p] = IdlePoll]
             ELSE IF r.hi < Len(r.agentHandlers)
             THEN [unit EXCEPT !.offered = @ \cup {<<r.messages[r.mi], r.agentHandlers[r.hi + 1]>>},
                               !.run[p].hi = r.hi + 1]
             ELSE IF r.mi < Len(r.messages)
             THEN [unit EXCEPT !.offered = @ \cup {<<r.messages[r.mi + 1], r.agentHandlers[1]>>},
                               !.run[p].mi = r.mi + 1, !.run[p].hi = 1]
             ELSE [unit EXCEPT !.run[p] = IdlePoll]
  /\ UNCHANGED orchVars

NextSqs ==
  \/ \E m \in SqsMsgs, to \in AgentIds : sqsSend(m, to)
  \/ \E a \in AgentIds : sqsSubscribe(a)
  \/ \E a \in AgentIds : sqsUnsubscribe(a)
  \/ \E a \in AgentIds, p \in Polls : sqsPollTick(a, p)
  \/ \E a \in AgentIds, p \in Polls : sqsReceive(a, p)
  \/ \E p \in Polls, S \in SUBSET SqsMsgs : sqsResponse(p, S)
  \/ \E p \in Polls : sqsDeleted(p)
  \/ \E p \in Polls, outcome \in SqsHandlerOutcomes : sqsHandlerSettles(p, outcome)

SpecSqs == InitSqs /\ [][NextSqs]_vars

\* ------------------------------------------------------------------ claims

\* The calls that were admitted and have not returned.
InFlight == {i \in Inv : inv[i].pc \notin {"idle", "returned"}}

\* C1: in every reachable state the size of runningAgents is at most the
\* configured maxConcurrentAgents, for every configured value >= 0.
C1_RunningWithinCap == Cardinality(runningAgents) <= maxConcurrentAgents

\* C2: the number of executeAgent calls admitted and not yet returned is at
\* most maxConcurrentAgents (stated for a limit of at least 1, so that it does
\* not fail by C1's zero limit alone).
C2_InFlightWithinCap ==
  maxConcurrentAgents >= 1 => Cardinality(InFlight) <= maxConcurrentAgents

\* C3: when an admitted executeAgent call for an agent returns, whatever its
\* outcome, that agent is not in runningAgents; and once every call has
\* returned, runningAgents is empty.
C3_ReturnLeavesRunning ==
  /\ [][\A i \in Inv : (inv[i].pc = "finally" /\ inv'[i].pc = "returned")
                          => inv[i].agent \notin runningAgents']_vars
  /\ [](InFlight = {} => runningAgents = {})

C3_Witness ==
  /\ \E i \in Inv : inv[i].pc = "returned" /\ inv[i].result.code = "FALLBACK_FAILED"
  /\ \E i \in Inv : inv[i].pc = "returned" /\ inv[i].result.success
  /\ InFlight = {}
  /\ runningAgents = {}

\* C4: once the breaker has seen at least threshold consecutive failed gated
\* calls, a gated call arriving less than timeout after the last recorded
\* failure is refused without entering fn, and the breaker is and stays OPEN.
C4_RefusedWhileOpen ==
  [][\A c \in Gated :
       (/\ unit.kind = "breaker"
        /\ unit.call[c] = "idle" /\ unit'.call[c] # "idle"
        /\ unit.consecutive >= unit.cb.threshold
        /\ unit.now - unit.cb.lastFailureTime < unit.cb.timeout)
       => /\ unit'.call[c] = "refused"
          /\ unit.cb.state = "OPEN"
          /\ unit'.cb = unit.cb]_vars

C4_Witness ==
  /\ unit.kind = "breaker"
  /\ \E c \in Gated : unit.call[c] = "refused"
  /\ unit.consecutive >= unit.cb.threshold
  /\ unit.cb.threshold = MaxThreshold
  /\ unit.now > unit.cb.lastFailureTime
  /\ unit.cb.state = "OPEN"

\* C5: whenever a gated call fails while the breaker is HALF_OPEN, the breaker
\* moves to OPEN, lastFailureTime becomes the current time and failureCount is
\* at or above threshold afterwards.
C5_HalfOpenFailureOpens ==
  [][(/\ unit.kind = "breaker"
      /\ unit.cb.state = "HALF_OPEN"
      /\ unit'.consecutive = unit.consecutive + 1)
     => /\ unit'.cb.state = "OPEN"
        /\ unit'.cb.lastFailureTime = unit.now
        /\ unit'.cb.failureCount >= unit'.cb.threshold]_vars

RECURSIVE Pow(_, _)
Pow(b, n) == IF n = 0 THEN 1 ELSE b * Pow(b, n - 1)

\* C6: when every attempt fails, the agent was invoked exactly maxAttempts
\* times and the waits were exactly min(initialDelay * backoffMultiplier^i,
\* maxDelay) for i = 0 .. maxAttempts-2; with no policy, invoked once, no wait.
C6_RunsAndWaits ==
  (unit.kind = "retry" /\ unit.pc = "thrown") =>
     IF unit.policy.present
     THEN /\ unit.runs = unit.policy.maxAttempts
          /\ unit.waits =
               [i \in 1..(unit.policy.maxAttempts - 1) |->
                  Min(unit.policy.initialDelay * Pow(unit.policy.backoffMultiplier, i - 1),
                      unit.policy.maxDelay)]
     ELSE unit.runs = 1 /\ unit.waits = <<>>

\* C7: the context handed to the agent has the target id as agentId and the
\* freshly generated request id as requestId, whatever the partial context holds.
C7_IdsAuthoritative ==
  (unit.kind = "context" /\ unit.generated # 0) =>
     /\ unit.ctx.agentId = unit.target
     /\ unit.ctx.requestId = unit.generated

\* The failure codes the orchestrator's Results carry.
ResultCodes == {"AGENT_NOT_FOUND", "MAX_CONCURRENT_LIMIT", "EXECUTION_FAILED",
                "FALLBACK_AGENT_NOT_FOUND", "FALLBACK_FAILED"}

NoFallback(a) == ~(fallbackEnabled /\ fallbackAgent[a] # Null)

Decided(i) == inv[i].pc \in {"finally", "returned"}

\* C11: when the gated primary execution raised (breaker open or retries
\* exhausted): with fallback enabled and a fallback agent named, the Result is
\* that of executing the fallback agent with the call's own context (success
\* with the fallback's data when it succeeds, else a FALLBACK_ failure);
\* otherwise it is EXECUTION_FAILED with the underlying message and the
\* fallback agent was not invoked.
C11_FallbackOrExecutionFailed ==
  \A i \in Inv : (Decided(i) /\ inv[i].threw) =>
     LET f == fallbackAgent[inv[i].agent]
         r == inv[i].result IN
     IF fallbackEnabled /\ f # Null
     THEN \/ r.success /\ r.data = f /\ inv[i].fbRuns >= 1 /\ inv[i].fbCtx = inv[i].ctx
          \/ ~r.success /\ r.code = "FALLBACK_FAILED"
               /\ inv[i].fbRuns >= 1 /\ inv[i].fbCtx = inv[i].ctx
          \/ ~r.success /\ r.code = "FALLBACK_AGENT_NOT_FOUND" /\ inv[i].fbRuns = 0
     ELSE /\ r = Failure("EXECUTION_FAILED", inv[i].error)
          /\ inv[i].error \in {"Circuit breaker is OPEN", RunErrorMessage}
          /\ inv[i].fbRuns = 0

C11_Witness ==
  /\ \E i \in Inv : /\ inv[i].pc = "returned" /\ inv[i].threw
                    /\ inv[i].result.success
                    /\ inv[i].result.data = fallbackAgent[inv[i].agent]
  /\ \E j \in Inv : /\ inv[j].pc = "returned" /\ inv[j].threw
                    /\ inv[j].result.code = "EXECUTION_FAILED"
                    /\ inv[j].fbRuns = 0

\* C12: executeFallback invokes the fallback agent at most MaxFallbackAttempts
\* times, with no sleep between attempts and without changing any breaker; it
\* stops at the first success and returns it, returns FALLBACK_FAILED after
\* MaxFallbackAttempts failures, and FALLBACK_AGENT_NOT_FOUND with no
\* invocation when the fallback agent is unknown.
C12_FallbackAttempts ==
  /\ [](\A i \in Inv :
         /\ inv[i].fbRuns <= MaxFallbackAttempts
         /\ (Decided(i) /\ inv[i].result.code = "FALLBACK_FAILED")
              => inv[i].fbRuns = MaxFallbackAttempts
         /\ (Decided(i) /\ inv[i].result.code = "FALLBACK_AGENT_NOT_FOUND")
              => inv[i].fbRuns = 0)
  /\ [][\A i \in Inv :
         (inv[i].pc \in {"fbRun", "fbNext"} /\ inv'[i] # inv[i]) =>
            LET f == fallbackAgent[inv[i].agent] IN
            /\ circuitBreakers' = circuitBreakers
            /\ inv'[i].pc \in {"fbRun", "fbNext", "finally"}
            /\ (inv[i].pc = "fbRun" /\ status'[f] = "COMPLETED")
                 => /\ inv'[i].pc = "finally"
                    /\ inv'[i].result.success /\ inv'[i].result.data = f
                    /\ inv'[i].fbRuns = inv[i].fbRuns
            /\ (inv[i].pc = "fbRun" /\ status'[f] = "FAILED")
                 => inv'[i].pc = "fbNext" /\ inv'[i].fbRuns = inv[i].fbRuns]_vars

C12_Witness ==
  /\ \E i \in Inv : /\ inv[i].pc = "returned"
                    /\ inv[i].result.code = "FALLBACK_FAILED"
                    /\ inv[i].fbRuns = MaxFallbackAttempts
  /\ \E j \in Inv : /\ inv[j].pc = "returned"
                    /\ inv[j].result.code = "FALLBACK_AGENT_NOT_FOUND"

\* The calls inside agent a's execute: as the primary agent of a call, or as
\* its fallback agent.
Executing(a) ==
  {i \in Inv : \/ inv[i].pc = "run" /\ inv[i].agent = a
               \/ inv[i].pc = "fbRun" /\ fallbackAgent[inv[i].agent] = a}

\* C13: for every agent at most one execute is in flight at any moment.
C13_OneExecutePerAgent == \A a \in AgentIds : Cardinality(Executing(a)) <= 1

\* Sequence membership.
InSeq(x, sq) == \E k \in DOMAIN sq : sq[k] = x

\* The messages the recipient a has observed: through receiveMessages, or
\* as the argument of one of the handlers of the array a send to a iterates.
Observed(a) ==
  {n \in DOMAIN unit.msgs :
     \/ InSeq(n, unit.recv[a])
     \/ \E k \in DOMAIN unit.log : unit.log[k][2] = n /\ unit.msgs[n].to = a}

\* C14: once sendMessage has returned, the recipient's queue holds the
\* message, and every message the recipient observed under the returned id
\* has the from, to, type, payload and correlationId the call was given and
\* the given priority, or NORMAL when none was given.
C14_SentMessageFields ==
  unit.kind = "bus" =>
    \A s \in Sends : unit.send[s].pc = "returned" =>
      LET sl == unit.send[s]
          g == sl.args IN
      /\ InSeq(sl.msg, unit.recv[g.to] \o unit.messages[g.to])
      /\ unit.msgs[sl.msg].id = sl.ret
      /\ \A n \in Observed(g.to) \cup {sl.msg} : unit.msgs[n].id = sl.ret =>
           /\ unit.msgs[n].from = g.from
           /\ unit.msgs[n].to = g.to
           /\ unit.msgs[n].type = g.type
           /\ unit.msgs[n].payload = g.payload
           /\ unit.msgs[n].correlationId = g.opts.correlationId
           /\ unit.msgs[n].priority =
                IF g.opts.priority = Null THEN "NORMAL" ELSE g.opts.priority

C14_Witness ==
  /\ unit.kind = "bus"
  /\ \E s, t \in Sends :
       /\ unit.send[s].pc = "returned" /\ unit.send[t].pc = "returned"
       /\ unit.send[s].args.opts.priority = Null
       /\ unit.send[t].args.opts.priority = "HIGH"
       /\ unit.send[s].args.to = unit.send[t].args.to
       /\ InSeq(unit.send[s].msg, unit.recv[unit.send[s].args.to])
       /\ \E k \in DOMAIN unit.log : unit.log[k][2] = unit.send[t].msg

\* How often x occurs in a sequence.
Occurrences(x, sq) == Cardinality({k \in DOMAIN sq : sq[k] = x})

\* The handlers invoked with message n, in the order of their invocation.
RECURSIVE InvokedWith(_, _)
InvokedWith(n, lg) ==
  IF lg = <<>> THEN <<>>
  ELSE IF Head(lg)[2] = n THEN <<Head(lg)[1]>> \o InvokedWith(n, Tail(lg))
  ELSE InvokedWith(n, Tail(lg))

NoDuplicates(sq) == \A j, k \in DOMAIN sq : sq[j] = sq[k] => j = k

\* C15: a broadcast whose sends all succeeded returns one id per recipient,
\* the k-th being the id of a message to the k-th recipient from the given
\* sender with the given correlationId, placed exactly once in that
\* recipient's queue; the messages were constructed in the order of the list.
C15_BroadcastIds ==
  (unit.kind = "bus" /\ unit.bc.pc = "returned") =>
    LET b == unit.bc IN
    /\ b.out.kind = "ids"
    /\ Len(b.out.ids) = Len(b.recipients)
    /\ \A k \in DOMAIN b.recipients :
         \E n \in DOMAIN unit.msgs :
           /\ unit.msgs[n].id = b.out.ids[k]
           /\ unit.msgs[n].to = b.recipients[k]
           /\ unit.msgs[n].from = b.from
           /\ unit.msgs[n].correlationId = b.opts.correlationId
           /\ Occurrences(n, unit.recv[b.recipients[k]] \o unit.messages[b.recipients[k]]) = 1
           /\ \A h \in DOMAIN unit.hkind :
                InSeq(h, unit.installed[n]) => Occurrences(<<h, n>>, unit.log) = 1
           /\ \A j \in DOMAIN b.recipients :
                j < k => \E m \in DOMAIN unit.msgs :
                           unit.msgs[m].id = b.out.ids[j] /\ m < n

C15_Witness ==
  /\ unit.kind = "bus"
  /\ unit.bc.pc = "returned"
  /\ Len(unit.bc.recipients) = MaxBroadcast
  /\ unit.bc.recipients[1] = unit.bc.recipients[2]
  /\ unit.bc.opts.correlationId = "X"
  /\ Len(unit.log) >= 2

\* C16: when a send fails during broadcast, the ids of the messages already
\* sent come back to the caller alongside the error.
C16_IdsWithError ==
  (unit.kind = "bus" /\ unit.bc.pc = "thrown") => unit.bc.out.ids = unit.bc.ids

\* C17: a handler that was unsubscribed is never invoked with a message sent
\* after the unsubscribe.
C17_NoDeliveryAfterUnsubscribe ==
  unit.kind = "bus" =>
    \A k \in DOMAIN unit.log :
      LET h == unit.log[k][1]
          n == unit.log[k][2] IN
      unit.unsubAt[h] # 0 => n < unit.unsubAt[h]

C17_Witness ==
  /\ unit.kind = "bus"
  /\ \E j, k \in DOMAIN unit.log :
       LET h1 == unit.log[j][1]
           h2 == unit.log[k][1] IN
       /\ unit.unsubAt[h1] # 0
       /\ unit.log[k][2] >= unit.unsubAt[h1]
       /\ unit.msgs[unit.log[k][2]].to = unit.msgs[unit.log[j][2]].to
       /\ h1 # h2

\* C18 (as claimed): when a send is over, every handler installed for the
\* recipient at the time of the send was offered the message exactly once, in
\* registration order.
C18_EveryHandlerOffered ==
  unit.kind = "bus" =>
    \A s \in Sends : unit.send[s].pc \in {"returned", "thrown"} =>
      LET n == unit.send[s].msg
          offered == InvokedWith(n, unit.log)
          inst == unit.installed[n] IN
      /\ NoDuplicates(offered)
      /\ Len(offered) >= Len(inst)
      /\ \A j \in DOMAIN inst : offered[j] = inst[j]

\* C18 (amended): the handlers installed at the time of the send are offered
\* the message in registration order, each at most once; when the send
\* returns every one of them was offered it; a send that failed stopped at the
\* handler that raised.
C18_OfferedUntilRaise ==
  unit.kind = "bus" =>
    \A s \in Sends : unit.send[s].pc \in {"handler", "returned", "thrown"} =>
      LET n == unit.send[s].msg
          offered == InvokedWith(n, unit.log)
          inst == unit.installed[n] IN
      /\ NoDuplicates(offered)
      /\ \A j \in DOMAIN inst : j <= Len(offered) => offered[j] = inst[j]
      /\ unit.send[s].pc = "returned" => Len(offered) >= Len(inst)
      /\ unit.send[s].pc = "thrown" =>
           /\ Len(offered) = unit.send[s].idx
           /\ unit.hkind[offered[Len(offered)]] = "plain"

C18_Witness ==
  /\ unit.kind = "bus"
  /\ \E s, t \in Sends :
       /\ unit.send[s].pc = "returned"
       /\ Len(unit.installed[unit.send[s].msg]) = 2
       /\ unit.send[t].pc = "thrown"
       /\ Len(unit.installed[unit.send[t].msg]) = 2
       /\ Len(InvokedWith(unit.send[t].msg, unit.log)) = 1

\* C19: messages from one sender to one recipient are observed in the order
\* of their sendMessage calls, by every handler and by receiveMessages.
C19_SendOrder ==
  unit.kind = "bus" =>
    /\ \A j, k \in DOMAIN unit.log :
         (/\ j < k
          /\ unit.log[j][1] = unit.log[k][1]
          /\ unit.msgs[unit.log[j][2]].from = unit.msgs[unit.log[k][2]].from
          /\ unit.msgs[unit.log[j][2]].to = unit.msgs[unit.log[k][2]].to)
         => unit.log[j][2] < unit.log[k][2]
    /\ \A a \in AgentIds : \A j, k \in DOMAIN unit.recv[a] :
         (j < k /\ unit.msgs[unit.recv[a][j]].from = unit.msgs[unit.recv[a][k]].from)
         => unit.recv[a][j] < unit.recv[a][k]

\* C20: when handleMessage raises inside the handler the orchestrator
\* installed, the handler catches it: the send goes on to the next handler of
\* the array or returns the message's id, and a send never fails at an
\* orchestrator handler.
C20_HandlerFailureCaught ==
  /\ [](unit.kind = "bus" =>
         \A s \in Sends : unit.send[s].pc = "thrown" =>
           unit.hkind[arrayOf(unit, unit.send[s].arr)[unit.send[s].idx]] = "plain")
  /\ [][(unit.kind = "bus" /\ unit'.caught = unit.caught + 1) =>
         \A s \in Sends : unit'.send[s] # unit.send[s] =>
           LET sl == unit.send[s]
               hs == arrayOf(unit, sl.arr) IN
           IF sl.idx < Len(hs)
           THEN /\ unit'.send[s].pc = "handler"
                /\ unit'.log = Append(unit.log, <<hs[sl.idx + 1], sl.msg>>)
           ELSE /\ unit'.send[s].pc = "returned"
                /\ unit'.send[s].ret = unit.msgs[sl.msg].id]_vars

C20_Witness ==
  /\ unit.kind = "bus"
  /\ unit.caught >= 1
  /\ unit.hkind = <<"orch", "plain">>
  /\ Len(unit.msgs) = 1
  /\ unit.log = << <<1, 1>>, <<2, 1>> >>
  /\ \E s \in Sends : unit.send[s].pc = "returned" /\ unit.send[s].ret = 1

\* C21: an executeAgent call that is rejected, with AGENT_NOT_FOUND because
\* the id is not registered or with MAX_CONCURRENT_LIMIT because runningAgents
\* is at the limit, starts no run and leaves runningAgents, every status and
\* every breaker as they were, also when another call for the id is in
\* flight; and a call is rejected exactly in these two cases.
C21_RejectedChangesNothing ==
  [][\A i \in Inv :
       /\ (inv[i].pc = "idle" /\ inv'[i].pc = "returned") =>
            /\ UNCHANGED <<runningAgents, status, circuitBreakers, agents, nCalls>>
            /\ \A j \in Inv \ {i} : inv'[j] = inv[j]
            /\ ~inv'[i].result.success
            /\ inv'[i].fbRuns = 0 /\ inv'[i].ctx = 0
            /\ IF inv'[i].agent \notin agents
               THEN inv'[i].result.code = "AGENT_NOT_FOUND"
               ELSE inv'[i].result.code = "MAX_CONCURRENT_LIMIT" /\ atLimit
       /\ (inv[i].pc = "idle" /\ inv'[i].pc \notin {"idle", "returned"}) =>
            inv'[i].agent \in agents /\ ~atLimit]_vars

C21_Witness ==
  \E i, j \in Inv :
    /\ inv[i].pc = "returned" /\ inv[i].result.code = "MAX_CONCURRENT_LIMIT"
    /\ inv[j].pc = "run" /\ inv[j].agent = inv[i].agent
    /\ inv[i].agent \in runningAgents
    /\ status[inv[i].agent] = "RUNNING"

\* C22: Agent.execute never raises: it sets RUNNING before it calls run; when
\* run resolves with v it sets COMPLETED and returns a success with data v;
\* when run throws it sets FAILED and returns a failure whose code is
\* AGENT_ERROR with the Error's message for an Error, and UNKNOWN_ERROR with
\* the value's string form for any other value.
C22_ExecuteNeverRaises ==
  /\ [](unit.kind = "agent" =>
         \A c \in Execs :
           /\ unit.call[c].pc \in {"idle", "run", "returned"}
           /\ unit.call[c].pc = "returned" =>
                LET how == unit.call[c].settled
                    r == unit.call[c].result IN
                IF how.ok
                THEN r.success /\ r.data = how.value /\ r.code = ""
                ELSE /\ ~r.success /\ r.data = Null
                     /\ how.thrown.type = "Error" =>
                          r.code = "AGENT_ERROR" /\ r.message = how.thrown.text
                     /\ how.thrown.type # "Error" => r.code = "UNKNOWN_ERROR"
                     /\ how.thrown.type = "string" => r.message = how.thrown.text
                     /\ how.thrown = Thrown("number", "", 42) => r.message = "42"
                     /\ how.thrown.type = "undefined" => r.message = "undefined")
  /\ [][unit.kind = "agent" =>
         \A c \in Execs :
           /\ (unit.call[c].pc = "idle" /\ unit'.call[c].pc # "idle") =>
                unit'.call[c].pc = "run" /\ unit'.status = "RUNNING"
           /\ (unit.call[c].pc = "run" /\ unit'.call[c].pc # "run") =>
                /\ unit'.call[c].pc = "returned"
                /\ unit'.status =
                     IF unit'.call[c].settled.ok THEN "COMPLETED" ELSE "FAILED"]_vars

C22_Witness ==
  /\ unit.kind = "agent"
  /\ \E c, d \in Execs :
       /\ unit.call[c].pc = "returned" /\ unit.call[c].result.code = "UNKNOWN_ERROR"
       /\ unit.call[c].result.message = "42"
       /\ unit.call[d].pc = "returned" /\ unit.call[d].result.success
       /\ unit.call[d].result.data = "d2"
  /\ unit.status = "FAILED"

\* C23: suspend sets the status to SUSPENDED from every status; resume sets
\* it to IDLE when it is SUSPENDED and leaves every other status as it is.
C23_SuspendResume ==
  unit.kind = "agent" =>
    /\ unit.op.name = "suspend" => unit.status = "SUSPENDED"
    /\ unit.op.name = "resume" =>
         unit.status = IF unit.op.before = "SUSPENDED" THEN "IDLE" ELSE unit.op.before

C23_Witness ==
  /\ unit.kind = "agent"
  /\ unit.op = Did("resume", "RUNNING")
  /\ unit.status = "RUNNING"
  /\ \E c \in Execs : unit.call[c].pc = "run"

C25_ShutdownClears ==
  /\ [][shutdown =>
          /\ agents' = {} /\ runningAgents' = {}
          /\ \A a \in AgentIds : handlers'[a] = <<>> /\ messageHandlers'[a] = <<>>
          /\ raised'.op = "none"
          /\ agents = {} =>
               UNCHANGED <<agents, runningAgents, handlers, messageHandlers, fmAgents,
                           circuitBreakers, status, inv>>]_vars
  /\ [][\A i \in Inv : (agents = {} /\ inv[i].pc = "idle" /\ inv'[i].pc # "idle") =>
          /\ inv'[i].pc = "returned"
          /\ inv'[i].result = Failure("AGENT_NOT_FOUND", "not found")
          /\ runningAgents' = {}]_vars

C25_Witness ==
  /\ agents = {} /\ runningAgents = {}
  /\ fmAgents = AgentIds
  /\ \A a \in AgentIds : handlers[a] = <<>> /\ messageHandlers[a] = <<>>
  /\ \E i, j \in Inv :
       /\ inv[i].pc = "run"
       /\ inv[j].pc = "returned" /\ inv[j].agent = inv[i].agent
       /\ inv[j].result.code = "AGENT_NOT_FOUND"

\* C26: after any sequence of registerAgent, unregisterAgent and shutdown,
\* every registered id has exactly one handler, the same in the bus-side table
\* and in the transport, and every other id has none; a message sent to a
\* registered agent calls its handleMessage exactly once, and a message sent
\* to an id that is not registered calls none.
C26_OneHandlerPerAgent ==
  /\ \A a \in AgentIds :
       IF a \in agents
       THEN handlers[a] = <<OrchHandler(a)>> /\ messageHandlers[a] = <<OrchHandler(a)>>
       ELSE handlers[a] = <<>> /\ messageHandlers[a] = <<>>
  /\ unit.kind = "route" =>
       \A n \in DOMAIN unit.sent :
         LET calls == {k \in DOMAIN unit.handled : unit.handled[k][2] = n} IN
         /\ \A k \in calls : unit.handled[k][1] = unit.sent[n].to
         /\ Cardinality(calls) = IF unit.sent[n].registered THEN 1 ELSE 0

C26_Witness ==
  /\ unit.kind = "route"
  /\ Len(unit.sent) = 2
  /\ unit.sent[1].to = unit.sent[2].to
  /\ unit.sent[1].registered /\ unit.sent[2].registered
  /\ Len(unit.handled) = 2
  /\ raised.op = "registerAgent"
  /\ \E s \in Routes : unit.send[s].pc = "returned" /\ unit.send[s].msg = 2

\* C27: receiveMessages(a) returns only messages whose recipient is a, and a
\* message sent to b is never held in the queue of another id and never
\* given to a handler subscribed for another id: a handler only ever sees
\* messages of one recipient, the id it is subscribed for.
C27_OnlyOwnMessages ==
  unit.kind = "bus" =>
    /\ \A a \in AgentIds :
         /\ \A k \in DOMAIN unit.recv[a] : unit.msgs[unit.recv[a][k]].to = a
         /\ \A k \in DOMAIN unit.messages[a] : unit.msgs[unit.messages[a][k]].to = a
         /\ \A j \in DOMAIN unit.messageHandlers[a] : \A k \in DOMAIN unit.log :
              unit.log[k][1] = unit.messageHandlers[a][j]
                => unit.msgs[unit.log[k][2]].to = a
    /\ \A j, k \in DOMAIN unit.log :
         unit.log[j][1] = unit.log[k][1]
           => unit.msgs[unit.log[j][2]].to = unit.msgs[unit.log[k][2]].to

C27_Witness ==
  /\ unit.kind = "bus"
  /\ Len(unit.msgs) = 2
  /\ unit.msgs[1].to # unit.msgs[2].to
  /\ \A a \in AgentIds : Len(unit.recv[a]) = 1 /\ Len(unit.messageHandlers[a]) = 1
  /\ Len(unit.log) = 2
  /\ unit.log[1][1] # unit.log[2][1]

\* The messages sent to a so far, in the order they were sent.
SentTo(a) ==
  SelectSeq([n \in 1..Len(unit.msgs) |-> n], LAMBDA n : unit.msgs[n].to = a)

\* C28: receiveMessages(a) returns what the queue of a holds and leaves it
\* empty; what the receives of a returned so far, followed by the queue, is
\* the messages sent to a in send order, so every message is returned by at
\* most one receive, none is lost, and a receive with no send since the last
\* one returns nothing.
C28_ReceiveDrains ==
  /\ [](unit.kind = "bus" =>
         \A a \in AgentIds : unit.recv[a] \o unit.messages[a] = SentTo(a))
  /\ [][unit.kind = "bus" =>
         \A a \in AgentIds : unit'.recv[a] # unit.recv[a] =>
           /\ unit'.recv[a] = unit.recv[a] \o unit.messages[a]
           /\ unit'.messages[a] = <<>>
           /\ unit'.msgs = unit.msgs]_vars

C28_Witness ==
  /\ unit.kind = "bus"
  /\ \E a \in AgentIds :
       /\ Len(unit.recv[a]) = 2
       /\ unit.messages[a] = <<>>
       /\ \E s \in Sends : unit.send[s].pc = "thrown" /\ unit.send[s].msg = 1
       /\ \E s \in Sends : unit.send[s].pc = "handler" /\ unit.send[s].msg = 2

\* C29: when the retry loop returns a success, the agent was invoked exactly
\* retryCount + 1 times, the loop slept once before each attempt but the
\* first, and after the return there is no further attempt or wait; a
\* first-attempt success has retryCount 0.
C29_RetryCountOnSuccess ==
  /\ [](unit.kind = "retry" /\ unit.pc = "returned" =>
         /\ unit.runs = unit.retryCount + 1
         /\ Len(unit.waits) = unit.retryCount
         /\ unit.retryCount = unit.attempt
         /\ unit.retryCount < retryMaxAttempts(unit.policy))
  /\ [][unit.kind = "retry" /\ unit.pc = "returned" => unit' = unit]_vars

C29_Witness ==
  /\ unit.kind = "retry"
  /\ unit.pc = "returned"
  /\ unit.retryCount = 2 /\ unit.runs = 3 /\ Len(unit.waits) = 2
  /\ unit.policy.maxAttempts = 3

\* C30: a gated call arriving while the breaker is OPEN is refused exactly
\* when now - lastFailureTime < timeout, the breaker staying as it is;
\* otherwise the breaker moves to HALF_OPEN with successCount 0 and the call
\* enters fn.  The breaker leaves OPEN only through such a call.
C30_OpenGate ==
  [][unit.kind = "breaker" =>
       /\ \A c \in Gated :
            (unit.call[c] = "idle" /\ unit'.call[c] # "idle" /\ unit.cb.state = "OPEN") =>
               IF unit.now - unit.cb.lastFailureTime < unit.cb.timeout
               THEN unit'.call[c] = "refused" /\ unit'.cb = unit.cb
               ELSE /\ unit'.call[c] = "fn"
                    /\ unit'.cb = [unit.cb EXCEPT !.state = "HALF_OPEN",
                                                   !.successCount = 0]
       /\ \A c \in Gated :
            (unit.call[c] = "fn" /\ unit'.call[c] # "fn") => unit'.call[c] = "idle"
       /\ (unit.cb.state = "OPEN" /\ unit'.cb.state # "OPEN") =>
            /\ unit'.cb.state = "HALF_OPEN"
            /\ unit.now - unit.cb.lastFailureTime >= unit.cb.timeout
            /\ \E c \in Gated : unit.call[c] = "idle" /\ unit'.call[c] = "fn"]_vars

C30_Witness ==
  /\ unit.kind = "breaker"
  /\ unit.cb.state = "HALF_OPEN" /\ unit.cb.successCount = 0
  /\ unit.cb.timeout = MaxTimeout
  /\ unit.now - unit.cb.lastFailureTime = unit.cb.timeout
  /\ \E c, d \in Gated : unit.call[c] = "fn" /\ unit.call[d] = "refused"

\* A gated call's fn succeeds, or fails, in this step.
FnSucceeds ==
  /\ \E c \in Gated : unit.call[c] = "fn" /\ unit'.call[c] = "idle"
  /\ unit'.consecutive = 0
FnFails ==
  /\ \E c \in Gated : unit.call[c] = "fn" /\ unit'.call[c] = "idle"
  /\ unit'.consecutive = unit.consecutive + 1

\* C31: in HALF_OPEN each successful gated call increments successCount, and
\* the breaker becomes CLOSED, with failureCount 0, exactly when successCount
\* reaches halfOpenAttempts; a breaker that has been HALF_OPEN is never CLOSED
\* with fewer successes since it last became HALF_OPEN.
C31_HalfOpenCloses ==
  /\ [](unit.kind = "breaker" =>
         /\ unit.cb.state = "HALF_OPEN" => unit.cb.successCount = unit.since
         /\ (unit.entered /\ unit.cb.state = "CLOSED")
              => unit.since >= unit.cb.halfOpenAttempts)
  /\ [][unit.kind = "breaker" =>
         /\ (unit.cb.state = "HALF_OPEN" /\ FnSucceeds) =>
              /\ unit'.cb.successCount = unit.cb.successCount + 1
              /\ unit'.cb.failureCount = 0
              /\ unit'.cb.state =
                   IF unit.cb.successCount + 1 >= unit.cb.halfOpenAttempts
                   THEN "CLOSED" ELSE "HALF_OPEN"
         /\ (unit.cb.state # "CLOSED" /\ unit'.cb.state = "CLOSED") =>
              /\ unit.cb.state = "HALF_OPEN" /\ FnSucceeds
              /\ unit'.cb.failureCount = 0
              /\ unit'.cb.successCount = unit.cb.halfOpenAttempts]_vars

C31_Witness ==
  /\ unit.kind = "breaker"
  /\ unit.entered /\ unit.cb.state = "CLOSED"
  /\ unit.cb.halfOpenAttempts = MaxHalfOpen
  /\ unit.since = MaxHalfOpen /\ unit.cb.successCount = MaxHalfOpen
  /\ unit.cb.failureCount = 0

\* C32: a breaker starts CLOSED; in CLOSED a success resets failureCount to 0
\* and a failure increments it, the breaker moving to OPEN exactly when
\* failureCount reaches threshold; failureCount is the number of failures
\* since the last success, so the breaker opens only after threshold failures
\* with no success in between.
C32_ClosedCounts ==
  /\ (unit.kind = "breaker" => unit.cb.state = "CLOSED" /\ unit.cb.failureCount = 0)
  /\ [](unit.kind = "breaker" => unit.cb.failureCount = unit.consecutive)
  /\ [][unit.kind = "breaker" =>
         /\ (unit.cb.state = "CLOSED" /\ FnSucceeds) =>
              unit'.cb.failureCount = 0 /\ unit'.cb.state = "CLOSED"
         /\ (unit.cb.state = "CLOSED" /\ FnFails) =>
              /\ unit'.cb.failureCount = unit.cb.failureCount + 1
              /\ unit'.cb.state =
                   IF unit.cb.failureCount + 1 >= unit.cb.threshold
                   THEN "OPEN" ELSE "CLOSED"
         /\ (unit.cb.state = "CLOSED" /\ unit'.cb.state # "CLOSED") =>
              /\ unit'.cb.state = "OPEN" /\ FnFails
              /\ unit'.consecutive >= unit.cb.threshold
              /\ unit'.cb.lastFailureTime = unit.now]_vars

C32_Witness ==
  /\ unit.kind = "breaker"
  /\ unit.cb.threshold = MaxThreshold
  /\ unit.cb.state = "CLOSED" /\ ~unit.entered
  /\ unit.failures >= unit.cb.threshold
  /\ unit.cb.failureCount = MaxThreshold - 1

\* C40: in every reachable state of a breaker, under every interleaving of
\* concurrent gated calls, CLOSED implies failureCount < threshold and
\* HALF_OPEN implies successCount < halfOpenAttempts; neither count is
\* ever negative.
C40_BreakerInvariant ==
  unit.kind = "breaker" =>
    /\ unit.cb.state = "CLOSED" => unit.cb.failureCount < unit.cb.threshold
    /\ unit.cb.state = "HALF_OPEN" => unit.cb.successCount < unit.cb.halfOpenAttempts
    /\ unit.cb.failureCount >= 0 /\ unit.cb.successCount >= 0

C40_Witness ==
  /\ unit.kind = "breaker"
  /\ unit.cb.state = "HALF_OPEN"
  /\ unit.cb.successCount = unit.cb.halfOpenAttempts - 1
  /\ unit.cb.halfOpenAttempts = MaxHalfOpen
  /\ unit.cb.failureCount = 0
  /\ \A c \in Gated : unit.call[c] = "fn"

\* Message m is with a running receive that has yet to return it or to call
\* a handler with it.
SqsPending(m) ==
  \E p \in Polls :
    LET r == unit.run[p] IN
    /\ r.pc \in {"delete", "handler"}
    /\ \E k \in DOMAIN r.messages :
         /\ r.messages[k] = m
         /\ r.pc = "handler" => k > r.mi

\* C33: with the SQS transport no message is lost: every message a polling
\* callback or a receive has removed from the queue is returned to the caller
\* of receive or is passed to a handler subscribed for its recipient, under
\* every interleaving of subscribe, unsubscribe, timer ticks and receive.
C33_NoMessageLost ==
  unit.kind = "sqs" =>
    \A m \in unit.deleted :
      \/ m \in unit.returned
      \/ \E h \in 1..MaxSqsSubs : <<m, h>> \in unit.offered
      \/ SqsPending(m)

\* C34: a call of executeWithFallback reports at most one event to the
\* circuit breaker of its agent: one failure when all maxAttempts attempts
\* have failed, whatever maxAttempts is, one success when an attempt succeeded,
\* none when the breaker refused the call; the failed attempts inside the
\* retry loop leave every breaker as it is.
C34_OneBreakerEvent ==
  /\ [](\A i \in Inv :
         /\ Len(inv[i].reports) <= 1
         /\ inv[i].pc \in {"run", "sleep", "cbSuccess", "cbFailure"}
              => inv[i].reports = <<>>
         /\ inv[i].refused => inv[i].reports = <<>>
         /\ (inv[i].threw /\ ~inv[i].refused) => inv[i].reports = <<"failure">>
         /\ (inv[i].pc \in {"finally", "returned"} /\ ~inv[i].threw
               /\ inv[i].result.success) => inv[i].reports = <<"success">>)
  /\ [][\A i \in Inv :
         /\ ((\E o \in RunOutcomes : runReturn(i, o)) \/ sleepDone(i))
              => UNCHANGED circuitBreakers
         /\ (cbFailure(i) /\ holdsBreaker(i)) =>
              /\ inv[i].attempt + 1 = retryMaxAttempts(retryPolicy[inv[i].agent])
              /\ circuitBreakers'[inv[i].agent].failureCount =
                   circuitBreakers[inv[i].agent].failureCount + 1
              /\ \A b \in AgentIds \ {inv[i].agent} :
                   circuitBreakers'[b] = circuitBreakers[b]
         /\ (cbSuccess(i) /\ holdsBreaker(i)) =>
              /\ circuitBreakers'[inv[i].agent].failureCount = 0
              /\ \A b \in AgentIds \ {inv[i].agent} :
                   circuitBreakers'[b] = circuitBreakers[b]]_vars

C34_Witness ==
  \E i \in Inv :
    /\ inv[i].pc = "returned" /\ inv[i].agent = "a1"
    /\ retryMaxAttempts(retryPolicy["a1"]) = 2 /\ inv[i].attempt = 1
    /\ inv[i].reports = <<"failure">>
    /\ circuitBreakers["a1"].failureCount = 1
    /\ \A k \in Inv : k # i => inv[k].pc = "idle"

\* C35: unregisterAgent and shutdown remove an agent from the orchestrator's
\* registry only: the FallbackManager keeps the agent and its breaker, so
\* getCircuitState still reports the breaker's state, a failed execution of an
\* agent naming the unregistered agent as fallback still runs it, and
\* registering the agent again gives it a fresh CLOSED breaker.
C35_FallbackManagerKeeps ==
  [][/\ fmAgents \subseteq fmAgents'
     /\ shutdown => UNCHANGED <<fmAgents, circuitBreakers>>
     /\ \A a \in AgentIds :
          /\ unregisterAgent(a) =>
               /\ UNCHANGED <<fmAgents, circuitBreakers>>
               /\ getCircuitState(a)' = getCircuitState(a)
          /\ (a \in agents /\ a \notin agents') =>
               getCircuitState(a)' = getCircuitState(a)
          /\ (a \notin agents /\ a \in agents') =>
               /\ a \in fmAgents'
               /\ circuitBreakers'[a] =
                    NewCircuitBreaker(DefaultThreshold, DefaultTimeout,
                                      DefaultHalfOpenAttempts)
               /\ getCircuitState(a)' = "CLOSED"
     /\ \A i \in Inv :
          LET f == fallbackAgent[inv[i].agent] IN
          (catchError(i) /\ fallbackEnabled /\ f # Null /\ f \in fmAgents) =>
            /\ inv'[i].pc = "fbRun"
            /\ inv'[i].fbRuns = 1
            /\ status'[f] = "RUNNING"]_vars

C35_Witness ==
  \E i \in Inv :
    /\ inv[i].agent = "a1" /\ "a1" \in agents
    /\ fallbackAgent["a1"] = "a2" /\ "a2" \notin agents
    /\ inv[i].pc = "fbRun" /\ inv[i].fbUnregistered
    /\ status["a2"] = "RUNNING"
    /\ getCircuitState("a2") = "CLOSED"

\* C36: provided every run settles, every admitted executeAgent call returns,
\* after at most maxAttempts runs of its agent and at most
\* MaxFallbackAttempts runs of the fallback agent, for every assignment of
\* fallback agents, an agent naming itself or two agents naming each other
\* included: the fallback agent's own fallback and retry policy are not
\* followed.
C36_ExecuteTerminates ==
  /\ [](\A i \in Inv :
         /\ inv[i].agent # Null =>
              inv[i].attempt + 1 <= retryMaxAttempts(retryPolicy[inv[i].agent])
         /\ inv[i].fbRuns <= MaxFallbackAttempts
         /\ inv[i].fbAttempt < MaxFallbackAttempts)
  /\ \A i \in Inv : (inv[i].pc # "idle") ~> (inv[i].pc = "returned")

C36_Witness ==
  \E i \in Inv :
    /\ inv[i].pc = "returned" /\ inv[i].agent = "a1"
    /\ fallbackAgent["a1"] = "a2" /\ fallbackAgent["a2"] = "a1"
    /\ inv[i].attempt + 1 = retryMaxAttempts(retryPolicy["a1"])
    /\ inv[i].fbRuns = MaxFallbackAttempts
    /\ inv[i].result.code = "FALLBACK_FAILED"

\* C37: the delivery of a message to a registered agent is not subject to
\* the limit of running agents or to the circuit breaker: handleMessage is
\* called once for every message sent to a registered agent, also when
\* runningAgents is at the limit or the agent's breaker is OPEN, and the
\* delivery changes neither runningAgents nor any breaker.
C37_DeliveryNotGated ==
  /\ [](unit.kind = "route" =>
         \A k \in DOMAIN unit.sent :
           unit.sent[k].registered =>
             Cardinality({j \in DOMAIN unit.handled :
                            unit.handled[j] = <<unit.sent[k].to, k>>}) = 1)
  /\ [][(unit.kind = "route" /\ unit'.handled # unit.handled) =>
         UNCHANGED <<runningAgents, circuitBreakers>>]_vars

C37_Witness ==
  /\ unit.kind = "route"
  /\ \E k \in DOMAIN unit.sent :
       /\ unit.sent[k].to = "a2"
       /\ unit.sent[k].atLimit /\ unit.sent[k].open
       /\ \E j \in DOMAIN unit.handled : unit.handled[j] = <<"a2", k>>
  /\ runningAgents = {"a1"}
  /\ circuitBreakers["a2"].state = "OPEN"

\* Message n is in what the receives of its recipient returned or in its
\* recipient's queue.
Kept(n) ==
  \E k \in DOMAIN SentTo(unit.msgs[n].to) :
    /\ SentTo(unit.msgs[n].to)[k] = n
    /\ InSeq(n, unit.recv[unit.msgs[n].to] \o unit.messages[unit.msgs[n].to])

\* C38: the in-memory transport's send appends the message to the recipient's
\* queue before it calls the handlers and never takes it out: only a receive
\* for the recipient shortens the queue, a message the handlers were called
\* with is returned by the next receive for its recipient, and a message whose
\* send failed because a handler threw stays in the queue as well.
C38_SendKeepsQueued ==
  /\ [](unit.kind = "bus" =>
         /\ \A e \in DOMAIN unit.log : Kept(unit.log[e][2])
         /\ \A s \in Sends :
              unit.send[s].pc \in {"handler", "thrown", "returned"}
                => Kept(unit.send[s].msg))
  /\ [][unit.kind = "bus" =>
         \A a \in AgentIds :
           /\ unit'.recv[a] = unit.recv[a] =>
                \/ unit'.messages[a] = unit.messages[a]
                \/ /\ Len(unit'.msgs) = Len(unit.msgs) + 1
                   /\ unit'.messages[a] = Append(unit.messages[a], Len(unit'.msgs))
           /\ unit'.recv[a] # unit.recv[a] =>
                \A k \in DOMAIN unit.messages[a] :
                  InSeq(unit.messages[a][k], unit'.recv[a])]_vars

C38_Witness ==
  /\ unit.kind = "bus"
  /\ \E s \in Sends :
       /\ unit.send[s].pc = "thrown" /\ unit.send[s].msg = 1
       /\ InSeq(1, unit.messages[unit.msgs[1].to])
  /\ Len(unit.msgs) = 2
  /\ \E e \in DOMAIN unit.log : unit.log[e][2] = 2
  /\ \E s \in Sends : unit.send[s].pc = "idle"
  /\ InSeq(2, unit.recv[unit.msgs[2].to])

\* C39: execute does not look at the agent's status: called on a SUSPENDED
\* agent it sets RUNNING and calls run like on any other, and leaves
\* COMPLETED or FAILED when run settles; a suspend made while run is in
\* progress is overwritten when run settles, so the status is SUSPENDED only
\* as long as suspend is the last of these operations.
C39_ExecuteIgnoresStatus ==
  unit.kind = "agent" =>
    /\ unit.op.name = "execute" =>
         /\ unit.status = "RUNNING"
         /\ \E c \in Execs : unit.call[c].pc = "run" /\ unit.call[c].at = unit.op.before
    /\ unit.op.name = "settle" => unit.status \in {"COMPLETED", "FAILED"}
    /\ unit.status = "SUSPENDED" => unit.op.name = "suspend"
    /\ \A c \in Execs :
         unit.call[c].pc = "returned" =>
           /\ unit.call[c].settled \in RunSettlements
           /\ unit.call[c].result.success = unit.call[c].settled.ok

C39_Witness ==
  /\ unit.kind = "agent"
  /\ unit.op = Did("settle", "SUSPENDED")
  /\ unit.status = "COMPLETED"
  /\ \E c \in Execs :
       /\ unit.call[c].pc = "returned"
       /\ unit.call[c].at = "SUSPENDED"
       /\ unit.call[c].result.success

====
